---- MODULE Spec2Model ----
(***************************************************************************)
(* A model of the DaosWorldIndexer snapshot-construction and weighted-     *)
(* selection engine (api.ts: snapshotHolders, getAllLPHolders,             *)
(* getWeightedRandomIndex, getRandomWinners, normalizeToEther).            *)
(*                                                                         *)
(* Numbers.  The program computes on JavaScript numbers and compares them  *)
(* with the constant 1e18.  A number is modelled exactly as a triple       *)
(* <<hi, lo, fr>> standing for hi * 1e18 + lo + fr / 1e18, with lo and fr  *)
(* small integers, so that both sides of the 1e18 threshold of             *)
(* normalizeToEther are representable.  Arithmetic is exact: the rounding  *)
(* of IEEE doubles is not modelled.                                        *)
(*                                                                         *)
(* Maps.  A JavaScript Map is modelled as the sequence of its entries in   *)
(* insertion order, which is the order Array.from(map.entries()) yields.   *)
(***************************************************************************)
EXTENDS Integers, Sequences, FiniteSets, TLC

VARIABLES
    \* ---- snapshotHolders ----
    tokens,          \* the configured Token[] (address, lpAddress)
    transfers,       \* the list getAllTransfers returned
    includeLPs,      \* the includeLPs argument
    pc,              \* position of snapshotHolders
    tokIdx,          \* index of the token the for-loop is at
    tokenTransfers,  \* the filtered, sorted transfers of that token
    trIdx,           \* number of transfers of tokenTransfers already applied
    holderBalances,  \* Map<holder, Map<token, {balance, lpBalance}>>
    lpBalances,      \* what getAllLPBalances returned, if it was called
    result,          \* the Balance[] returned
    \* ---- getAllLPHolders ----
    lpPc,            \* position of getAllLPHolders
    tokenIdSet,      \* the token-ids registered by the seed discovery
    chainOwner,      \* the position manager's own state: token-id -> owner
    currentBlock,    \* first block of the chunk being fetched
    endBlock,        \* last block of the chunk being fetched
    logBlock,        \* block of the log the loop over transferLogs is at
    lastLogs,        \* the last two logs of this chunk the loop has processed
    holders,         \* Map<owner, Set<tokenId>>
    lpResult,        \* the LPHolder[] returned
    \* ---- getWeightedRandomIndex ----
    wPc,             \* position of a single call of getWeightedRandomIndex
    wWeights,        \* its weights argument
    wDraw,           \* randomBuffer[0] / 0xffffffff, as a multiple of 1 / DrawRes
    wOut,            \* what the call returned or threw
    \* ---- getRandomWinners ----
    selPc,           \* position of getRandomWinners
    lpWeight,        \* the lpWeight argument
    numberOfWinners, \* the numberOfWinners argument
    holdersWithWeights, \* the Winner[] built from the snapshot, sorted
    weights,         \* the weights array of the selection loop
    winners,         \* the Set of the addresses selected
    selectedWinners, \* the Winner[] selected, in selection order
    drew,            \* whether getWeightedRandomIndex has been called
    selOut,          \* what getRandomWinners returned or threw
    \* ---- getAllTransfers and the DaosWorldIndexer methods that call it ----
    ftPc,            \* position of getAllTransfers
    blockNumber,     \* the blockNumber argument (the target block)
    pages,           \* the pages the provider holds, in the order of the page keys
    pageKey,         \* index of the page the next getAssetTransfers call asks for
    retries,         \* failures of the page being fetched
    allTransfers,    \* the transfers of the pages fetched so far
    caller,          \* the method of DaosWorldIndexer that was called
    csvExportFilename, \* its csvExportFilename argument ("" if not given)
    exported,        \* the export file written, if any
    \* ---- getAllLPHolders: the seed discovery ----
    seedIdx,         \* number of tokens the for-loop has dealt with
    seedRetries,     \* failures of the mint-log fetch of the current token
    firstMintBlock,  \* the lowest block of a mint log seen
    seedFailed,      \* the lpAddresses whose mint logs could not be fetched
    \* ---- the remote calls and the delays of the fetch stages ----
    callPc,          \* the stage that issues the next remote call
    lastAwait,       \* what was awaited last: a remote call or a delay
    backToBack,      \* the pairs of remote calls issued with no delay in between
    callRetries,     \* failures of the call being retried
    pagesLeft,       \* pages the provider has yet to deliver
    poolsLeft,       \* tokens the seed discovery has yet to deal with
    receiptsLeft,    \* mint logs of the current pool yet to be looked up
    chunksLeft,      \* chunks the ownership replay has yet to fetch
    positionCalls,   \* positionCalls.length
    batchStart       \* i, the index of the first position call of the next batch

snapVars == <<tokens, transfers, includeLPs, pc, tokIdx, tokenTransfers, trIdx,
              holderBalances, lpBalances, result>>

lpVars == <<lpPc, tokenIdSet, chainOwner, currentBlock, endBlock, logBlock, lastLogs,
            holders, lpResult>>

idxVars == <<wPc, wWeights, wDraw, wOut>>

selVars == <<selPc, lpWeight, numberOfWinners, holdersWithWeights, weights, winners,
             selectedWinners, drew, selOut>>

fetchVars == <<ftPc, blockNumber, pages, pageKey, retries, allTransfers, caller,
               csvExportFilename, exported>>

seedVars == <<seedIdx, seedRetries, firstMintBlock, seedFailed>>

callVars == <<callPc, lastAwait, backToBack, callRetries, pagesLeft, poolsLeft,
              receiptsLeft, chunksLeft, positionCalls, batchStart>>

otherThanSnap == <<lpVars, idxVars, selVars, fetchVars, seedVars, callVars>>
otherThanLP == <<snapVars, idxVars, selVars, fetchVars, seedVars, callVars>>
otherThanIdx == <<snapVars, lpVars, selVars, fetchVars, seedVars, callVars>>
otherThanSel == <<snapVars, lpVars, idxVars, fetchVars, seedVars, callVars>>

vars == <<snapVars, lpVars, idxVars, selVars, fetchVars, seedVars, callVars>>

----------------------------------------------------------------------------
(* Exact numbers: <<hi, lo, fr>> = hi * 1e18 + lo + fr / 1e18.              *)

Plain(k) == <<0, k, 0>>
Wei(k) == <<k, 0, 0>>
NZero == <<0, 0, 0>>

Sgn(i) == IF i > 0 THEN 1 ELSE IF i < 0 THEN -1 ELSE 0

\* the sign of a number (lo and fr stay far below 1e18 in absolute value)
NSign(a) == IF a[1] # 0 THEN Sgn(a[1]) ELSE IF a[2] # 0 THEN Sgn(a[2]) ELSE Sgn(a[3])

NAdd(a, b) == <<a[1] + b[1], a[2] + b[2], a[3] + b[3]>>
NSub(a, b) == <<a[1] - b[1], a[2] - b[2], a[3] - b[3]>>
NScale(k, a) == <<k * a[1], k * a[2], k * a[3]>>
NLt(a, b) == NSign(NSub(a, b)) < 0
NLe(a, b) == NSign(NSub(a, b)) <= 0
NMax(a, b) == IF NLt(a, b) THEN b ELSE a
NAbs(a) == IF NSign(a) < 0 THEN NScale(-1, a) ELSE a

\* num / 1e18 (exact on the numbers whose fr part is 0)
DivWei(a) == <<0, a[1], a[2]>>

normalizeToEther(value) ==
    IF NLt(Wei(1), NAbs(value)) THEN DivWei(value) ELSE value

----------------------------------------------------------------------------
(* JavaScript Map as the sequence of its entries in insertion order.       *)

MapHas(m, k) == \E i \in 1..Len(m) : m[i].key = k
MapGet(m, k) == m[CHOOSE i \in 1..Len(m) : m[i].key = k].val
MapSet(m, k, v) ==
    IF MapHas(m, k)
    THEN [i \in 1..Len(m) |-> IF m[i].key = k THEN [key |-> k, val |-> v] ELSE m[i]]
    ELSE Append(m, [key |-> k, val |-> v])
MapDelete(m, k) == SelectSeq(m, LAMBDA e : e.key # k)
MapKeys(m) == {m[i].key : i \in 1..Len(m)}
EmptyMap == <<>>

----------------------------------------------------------------------------
(* Addresses.  The provider delivers addresses in lower case; the          *)
(* configuration holds checksummed (mixed-case) addresses.                 *)

ZERO_ADDRESS == "0x00"

toLowerCase(a) ==
    CASE a = "0xTokA" -> "0xtoka"
      [] a = "0xTokB" -> "0xtokb"
      [] a = "0xPoolA" -> "0xpoola"
      [] a = "0xPoolB" -> "0xpoolb"
      [] OTHER -> a

----------------------------------------------------------------------------
(* snapshotHolders: the token replay.                                      *)

\* tokens.filter(rawContract.address.toLowerCase() === token.address.toLowerCase())
FilterToken(ts, token) ==
    SelectSeq(ts, LAMBDA t : toLowerCase(t.token) = toLowerCase(token.address))

\* a bug: an unstable sort, an element goes before the elements of its block
InsertByBlockBeforeEqual(sorted, t) ==
    LET n == Cardinality({i \in 1..Len(sorted) : sorted[i].blockNum < t.blockNum})
    IN  SubSeq(sorted, 1, n) \o <<t>> \o SubSeq(sorted, n + 1, Len(sorted))

\* Array.prototype.sort with (a, b) => a.blockNum - b.blockNum is stable:
\* an element goes after every element whose block is <= its own.
InsertByBlock(sorted, t) ==
    LET n == Cardinality({i \in 1..Len(sorted) : sorted[i].blockNum <= t.blockNum})
    IN  SubSeq(sorted, 1, n) \o <<t>> \o SubSeq(sorted, n + 1, Len(sorted))

RECURSIVE SortByBlock(_)
SortByBlock(ts) ==
    IF ts = <<>> THEN <<>>
    ELSE InsertByBlock(SortByBlock(SubSeq(ts, 1, Len(ts) - 1)), ts[Len(ts)])

\* holderBalances.get(holder).get(token)?.<field> || 0
FieldOr0(inner, tokenAddress, field) ==
    IF MapHas(inner, tokenAddress) THEN MapGet(inner, tokenAddress)[field] ELSE NZero

\* a bug: a new holder's map starts as a copy of the first holder's map
EnsureHolderAliased(hb, h) ==
    IF MapHas(hb, h) THEN hb
    ELSE MapSet(hb, h, IF hb = <<>> THEN EmptyMap ELSE hb[1].val)

\* if (!holderBalances.has(h)) holderBalances.set(h, new Map())
EnsureHolder(hb, h) == IF MapHas(hb, h) THEN hb ELSE MapSet(hb, h, EmptyMap)

\* a bug: the debit without the floor at zero
DebitNoClamp(hb, tokenAddress, fromAddress, amount) ==
    LET hb1 == EnsureHolder(hb, fromAddress)
        senderBalances == MapGet(hb1, fromAddress)
        currentBalance == FieldOr0(senderBalances, tokenAddress, "balance")
    IN  MapSet(hb1, fromAddress,
               MapSet(senderBalances, tokenAddress,
                      [balance |-> NSub(currentBalance, amount),
                       lpBalance |-> FieldOr0(senderBalances, tokenAddress, "lpBalance")]))

\* the sender branch: balance := max(0, balance - amount)
Debit(hb, tokenAddress, fromAddress, amount) ==
    LET hb1 == EnsureHolder(hb, fromAddress)
        senderBalances == MapGet(hb1, fromAddress)
        currentBalance == FieldOr0(senderBalances, tokenAddress, "balance")
    IN  MapSet(hb1, fromAddress,
               MapSet(senderBalances, tokenAddress,
                      [balance |-> NMax(NZero, NSub(currentBalance, amount)),
                       lpBalance |-> FieldOr0(senderBalances, tokenAddress, "lpBalance")]))

\* a bug: the credit overwrites the balance instead of adding to it
CreditOverwrite(hb, tokenAddress, toAddress, amount) ==
    LET hb1 == EnsureHolder(hb, toAddress)
        receiverBalances == MapGet(hb1, toAddress)
    IN  MapSet(hb1, toAddress,
               MapSet(receiverBalances, tokenAddress,
                      [balance |-> amount,
                       lpBalance |-> FieldOr0(receiverBalances, tokenAddress, "lpBalance")]))

\* the receiver branch: balance := balance + amount
Credit(hb, tokenAddress, toAddress, amount) ==
    LET hb1 == EnsureHolder(hb, toAddress)
        receiverBalances == MapGet(hb1, toAddress)
        currentBalance == FieldOr0(receiverBalances, tokenAddress, "balance")
    IN  MapSet(hb1, toAddress,
               MapSet(receiverBalances, tokenAddress,
                      [balance |-> NAdd(currentBalance, amount),
                       lpBalance |-> FieldOr0(receiverBalances, tokenAddress, "lpBalance")]))

\* a bug: the zero address is treated like any other address
ApplyTransferNoSentinel(hb, token, transfer) ==
    LET amount == normalizeToEther(transfer.value)
    IN  Credit(Debit(hb, token.address, transfer.from, amount),
               token.address, transfer.to, amount)

\* the body of the loop over tokenTransfers
ApplyTransfer(hb, token, transfer) ==
    LET amount == normalizeToEther(transfer.value)
        hb1 == IF transfer.from # ZERO_ADDRESS
               THEN Debit(hb, token.address, transfer.from, amount) ELSE hb
    IN  IF transfer.to # ZERO_ADDRESS
        THEN Credit(hb1, token.address, transfer.to, amount) ELSE hb1

RECURSIVE ReplayList(_, _, _)
ReplayList(hb, token, ts) ==
    IF ts = <<>> THEN hb
    ELSE ApplyTransfer(ReplayList(hb, token, SubSeq(ts, 1, Len(ts) - 1)), token, ts[Len(ts)])

\* the whole for (const token of tokens) loop
RECURSIVE ReplayTokens(_, _, _)
ReplayTokens(hb, toks, ts) ==
    IF toks = <<>> THEN hb
    ELSE LET before == ReplayTokens(hb, SubSeq(toks, 1, Len(toks) - 1), ts)
             token == toks[Len(toks)]
         IN  ReplayList(before, token, SortByBlock(FilterToken(ts, token)))

----------------------------------------------------------------------------
(* snapshotHolders: the LP merge, the pool exclusion and the result.       *)

\* for (const balance of lpHolder.balances) holderBalance.set(...)
RECURSIVE MergeEntries(_, _)
MergeEntries(inner, bals) ==
    IF bals = <<>> THEN inner
    ELSE LET m == MergeEntries(inner, SubSeq(bals, 1, Len(bals) - 1))
             b == bals[Len(bals)]
         IN  MapSet(m, b.tokenAddress,
                    [balance |-> FieldOr0(m, b.tokenAddress, "balance"),
                     lpBalance |-> b.lpBalance])

\* for (const lpHolder of lpBalances) ...
RECURSIVE MergeLPBalances(_, _)
MergeLPBalances(hb, lps) ==
    IF lps = <<>> THEN hb
    ELSE LET m == MergeLPBalances(hb, SubSeq(lps, 1, Len(lps) - 1))
             lpHolder == lps[Len(lps)]
             m1 == EnsureHolder(m, lpHolder.holderAddress)
         IN  MapSet(m1, lpHolder.holderAddress,
                    MergeEntries(MapGet(m1, lpHolder.holderAddress), lpHolder.balances))

\* new Set(tokens.map((token) => token.lpAddress.toLowerCase()))
LpAddresses(toks) == {toLowerCase(toks[i].lpAddress) : i \in 1..Len(toks)}

\* a bug: the pools are looked up by their configured (checksummed) spelling
ExcludePoolsCaseSensitive(hb, toks) ==
    SelectSeq(hb, LAMBDA e : e.key \notin {toks[i].lpAddress : i \in 1..Len(toks)})

\* lpAddresses.forEach((lpAddress) => holderBalances.delete(lpAddress))
ExcludePools(hb, toks) == SelectSeq(hb, LAMBDA e : e.key \notin LpAddresses(toks))

\* a bug: the entries are not filtered
KeepEntryAlways(amounts) == TRUE

\* .filter((balance) => balance.balance > 0 || balance.lpBalance > 0)
KeepEntry(amounts) == NSign(amounts.balance) > 0 \/ NSign(amounts.lpBalance) > 0

HolderRecord(e) ==
    [holderAddress |-> e.key,
     balances |-> LET kept == SelectSeq(e.val, LAMBDA te : KeepEntry(te.val))
                  IN  [i \in 1..Len(kept) |->
                          [tokenAddress |-> kept[i].key,
                           balance |-> kept[i].val.balance,
                           lpBalance |-> kept[i].val.lpBalance]]]

\* Array.from(holderBalances.entries()).map(...).filter(balances.length > 0)
BuildResult(hb) ==
    LET recs == [i \in 1..Len(hb) |-> HolderRecord(hb[i])]
    IN  SelectSeq(recs, LAMBDA r : Len(r.balances) > 0)

----------------------------------------------------------------------------
(* The inputs of snapshotHolders.                                          *)

MaxTransfers == 2
MaxLedgerTransfers == 3
MaxLPHolders == 1

TokenList ==
    << [address |-> "0xTokA", lpAddress |-> "0xPoolA"],
       [address |-> "0xTokB", lpAddress |-> "0xPoolB"] >>

\* Spec: transfers of both tokens between a holder, a pool and the zero
\* address, with values on both sides of the 1e18 threshold.
Transfer ==
    [token : {"0xtoka", "0xtokb"}, blockNum : {1},
     from : {ZERO_ADDRESS, "0xa", "0xpoola"}, to : {ZERO_ADDRESS, "0xa", "0xpoola"},
     value : {Plain(100), Wei(2)}]

TransferLists == UNION {[1..n -> Transfer] : n \in 0..MaxTransfers}

\* SpecLedger: the transfers of one token among two holders, in chronological
\* order (one per block), delivered oldest-first or most-recent-first.  The
\* two holders are interchangeable, so one of them stands for the address
\* that transfers to itself.
LedgerTransfer ==
    {t \in [token : {"0xtoka"}, blockNum : {0},
            from : {ZERO_ADDRESS, "0xa", "0xb"}, to : {ZERO_ADDRESS, "0xa", "0xb"},
            value : {Plain(40), Plain(100)}] :
        /\ t.from # ZERO_ADDRESS \/ t.to # ZERO_ADDRESS
        /\ ~(t.from = "0xb" /\ t.to = "0xb")}

Chronological(l) == [i \in 1..Len(l) |-> [l[i] EXCEPT !.blockNum = i]]
Reverse(l) == [i \in 1..Len(l) |-> l[Len(l) + 1 - i]]

LedgerLists ==
    LET chron == {Chronological(l) :
                    l \in UNION {[1..n -> LedgerTransfer] : n \in 0..MaxLedgerTransfers}}
    IN  chron \cup {Reverse(l) : l \in chron}

\* what getAllLPBalances can return: one record per holder, lpBalance > 0
LPEntry ==
    {[holderAddress |-> "0xa",
      balances |-> <<[tokenAddress |-> "0xTokA", balance |-> NZero, lpBalance |-> Plain(40)]>>],
     [holderAddress |-> "0xpoola",
      balances |-> <<[tokenAddress |-> "0xTokB", balance |-> NZero, lpBalance |-> Plain(40)]>>]}

LPBalanceResults ==
    {l \in UNION {[1..n -> LPEntry] : n \in 0..MaxLPHolders} :
        \A i, j \in 1..Len(l) : i # j => l[i].holderAddress # l[j].holderAddress}

----------------------------------------------------------------------------
(* snapshotHolders as a state machine.                                     *)

\* getAllLPHolders is not running
LPIdle ==
    /\ lpPc = "idle"
    /\ tokenIdSet = {}
    /\ chainOwner = <<>>
    /\ currentBlock = 0
    /\ endBlock = 0
    /\ logBlock = 0
    /\ lastLogs = <<>>
    /\ holders = EmptyMap
    /\ lpResult = <<>>

\* no call of getWeightedRandomIndex on its own
IdxIdle ==
    /\ wPc = "idle"
    /\ wWeights = <<>>
    /\ wDraw = 0
    /\ wOut = [kind |-> "none"]

\* getRandomWinners is not running
SelIdle ==
    /\ selPc = "idle"
    /\ lpWeight = 0
    /\ numberOfWinners = 0
    /\ holdersWithWeights = <<>>
    /\ weights = <<>>
    /\ winners = {}
    /\ selectedWinners = <<>>
    /\ drew = FALSE
    /\ selOut = [kind |-> "none"]

\* getAllTransfers has returned to snapshotHolders, called on its own
FetchIdle ==
    /\ ftPc = "idle"
    /\ blockNumber = 0
    /\ pages = <<>>
    /\ pageKey = 0
    /\ retries = 0
    /\ allTransfers = <<>>
    /\ caller = "snapshotHolders"
    /\ csvExportFilename = ""
    /\ exported = "none"

\* no remote call is being followed
CallIdle ==
    /\ callPc = "idle"
    /\ lastAwait = "none"
    /\ backToBack = {}
    /\ callRetries = 0
    /\ pagesLeft = 0
    /\ poolsLeft = 0
    /\ receiptsLeft = <<>>
    /\ chunksLeft = 0
    /\ positionCalls = 0
    /\ batchStart = 0

\* the seed discovery of getAllLPHolders is over or not running
SeedIdle ==
    /\ seedIdx = 0
    /\ seedRetries = 0
    /\ firstMintBlock = 0
    /\ seedFailed = {}

Init ==
    /\ LPIdle /\ IdxIdle /\ SelIdle /\ FetchIdle /\ SeedIdle /\ CallIdle
    /\ tokens = TokenList
    /\ transfers \in TransferLists
    /\ includeLPs \in BOOLEAN
    /\ pc = "tokens"
    /\ tokIdx = 0
    /\ tokenTransfers = <<>>
    /\ trIdx = 0
    /\ holderBalances = EmptyMap
    /\ lpBalances = <<>>
    /\ result = <<>>

\* for (const token of tokens): filter and sort the token's transfers
NextToken ==
    /\ pc = "tokens"
    /\ trIdx = Len(tokenTransfers)
    /\ tokIdx < Len(tokens)
    /\ tokIdx' = tokIdx + 1
    /\ tokenTransfers' = SortByBlock(FilterToken(transfers, tokens[tokIdx + 1]))
    /\ trIdx' = 0
    /\ UNCHANGED <<tokens, transfers, includeLPs, pc, holderBalances, lpBalances, result>>
    /\ UNCHANGED otherThanSnap

\* for (const transfer of tokenTransfers): one iteration
ReplayTransfer ==
    /\ pc = "tokens"
    /\ trIdx < Len(tokenTransfers)
    /\ holderBalances' = ApplyTransfer(holderBalances, tokens[tokIdx], tokenTransfers[trIdx + 1])
    /\ trIdx' = trIdx + 1
    /\ UNCHANGED <<tokens, transfers, includeLPs, pc, tokIdx, tokenTransfers, lpBalances,
                   result>>
    /\ UNCHANGED otherThanSnap

\* if (includeLPs): await getAllLPBalances(...) and merge what it returned
MergeLPs ==
    /\ pc = "tokens"
    /\ trIdx = Len(tokenTransfers)
    /\ tokIdx = Len(tokens)
    /\ includeLPs
    /\ lpBalances' \in LPBalanceResults
    /\ holderBalances' = MergeLPBalances(holderBalances, lpBalances')
    /\ pc' = "merged"
    /\ UNCHANGED <<tokens, transfers, includeLPs, tokIdx, tokenTransfers, trIdx, result>>
    /\ UNCHANGED otherThanSnap

SkipLPs ==
    /\ pc = "tokens"
    /\ trIdx = Len(tokenTransfers)
    /\ tokIdx = Len(tokens)
    /\ ~includeLPs
    /\ pc' = "merged"
    /\ UNCHANGED <<tokens, transfers, includeLPs, tokIdx, tokenTransfers, trIdx,
                   holderBalances, lpBalances, result>>
    /\ UNCHANGED otherThanSnap

\* delete the pools, build the result, return
Finish ==
    /\ pc = "merged"
    /\ holderBalances' = ExcludePools(holderBalances, tokens)
    /\ result' = BuildResult(holderBalances')
    /\ pc' = "done"
    /\ UNCHANGED <<tokens, transfers, includeLPs, tokIdx, tokenTransfers, trIdx, lpBalances>>
    /\ UNCHANGED otherThanSnap

Next == NextToken \/ ReplayTransfer \/ MergeLPs \/ SkipLPs \/ Finish

Spec == Init /\ [][Next]_vars

\* snapshotHolders(.., includeLPs = false) on the transfers of one token
InitLedger ==
    /\ LPIdle /\ IdxIdle /\ SelIdle /\ FetchIdle /\ SeedIdle /\ CallIdle
    /\ tokens = SubSeq(TokenList, 1, 1)
    /\ transfers \in LedgerLists
    /\ includeLPs = FALSE
    /\ pc = "tokens"
    /\ tokIdx = 0
    /\ tokenTransfers = <<>>
    /\ trIdx = 0
    /\ holderBalances = EmptyMap
    /\ lpBalances = <<>>
    /\ result = <<>>

NextLedger == NextToken \/ ReplayTransfer \/ SkipLPs \/ Finish

SpecLedger == InitLedger /\ [][NextLedger]_vars

----------------------------------------------------------------------------
(* The token replay on transfers that share blocks.  The chain emits the   *)
(* transfers of one token in some order; logIndex is the position of a     *)
(* transfer in that order (the provider reports it in uniqueId, which the  *)
(* code does not read).  The provider delivers them oldest-first or        *)
(* most-recent-first.                                                      *)

MaxOrderTransfers == 3

OrderTransfer ==
    {t \in [token : {"0xtoka"}, blockNum : {1, 2}, logIndex : {0},
            from : {ZERO_ADDRESS, "0xa", "0xb"}, to : {ZERO_ADDRESS, "0xa", "0xb"},
            value : {Plain(40)}] :
        /\ t.from # t.to}

\* the emitted lists: blocks do not decrease, logIndex is the position
Emitted ==
    {[i \in 1..Len(l) |-> [l[i] EXCEPT !.logIndex = i]] :
        l \in {m \in UNION {[1..n -> OrderTransfer] : n \in 0..MaxOrderTransfers} :
                  \A i, j \in 1..Len(m) : i < j => m[i].blockNum <= m[j].blockNum}}

OrderLists == Emitted \cup {Reverse(l) : l \in Emitted}

InitOrder ==
    /\ LPIdle /\ IdxIdle /\ SelIdle /\ FetchIdle /\ SeedIdle /\ CallIdle
    /\ tokens = SubSeq(TokenList, 1, 1)
    /\ transfers \in OrderLists
    /\ includeLPs = FALSE
    /\ pc = "tokens"
    /\ tokIdx = 0
    /\ tokenTransfers = <<>>
    /\ trIdx = 0
    /\ holderBalances = EmptyMap
    /\ lpBalances = <<>>
    /\ result = <<>>

SpecOrder == InitOrder /\ [][NextLedger]_vars

----------------------------------------------------------------------------
(* The token replay on two mints of any raw amounts: a to one holder, b to *)
(* another, the amounts on both sides of the 1e18 threshold.               *)

\* 1, 40, 1e18 - 1, 1e18, 1e18 + 1, 2e18, 40e18
RawAmounts == {Plain(1), Plain(40), <<1, -1, 0>>, Wei(1), <<1, 1, 0>>, Wei(2), Wei(40)}

AmountLists ==
    {<< [token |-> "0xtoka", blockNum |-> 1, from |-> ZERO_ADDRESS, to |-> "0xa", value |-> a],
        [token |-> "0xtoka", blockNum |-> 1, from |-> ZERO_ADDRESS, to |-> "0xb", value |-> b] >> :
        a \in RawAmounts, b \in RawAmounts}

InitAmounts ==
    /\ LPIdle /\ IdxIdle /\ SelIdle /\ FetchIdle /\ SeedIdle /\ CallIdle
    /\ tokens = SubSeq(TokenList, 1, 1)
    /\ transfers \in AmountLists
    /\ includeLPs = FALSE
    /\ pc = "tokens"
    /\ tokIdx = 0
    /\ tokenTransfers = <<>>
    /\ trIdx = 0
    /\ holderBalances = EmptyMap
    /\ lpBalances = <<>>
    /\ result = <<>>

SpecAmounts == InitAmounts /\ [][NextLedger]_vars

----------------------------------------------------------------------------
(* getAllLPHolders: the ownership replay.                                  *)

REVERT_AUTOCOMPOUNDER == "0xauto"
BLOCK_INCREMENT == 2000

\* a bug: the token-id stays in the previous owner's set
RemoveFromOwnerNever(hs, from, tokenId) == hs

\* a bug: the owner whose set became empty stays in the map
RemoveFromOwnerNoPrune(hs, from, tokenId) ==
    IF MapHas(hs, from) THEN MapSet(hs, from, MapGet(hs, from) \ {tokenId}) ELSE hs

\* holders.get(from).delete(tokenId); prune the owner whose set is empty
RemoveFromOwner(hs, from, tokenId) ==
    IF MapHas(hs, from)
    THEN LET rest == MapGet(hs, from) \ {tokenId}
         IN  IF rest = {} THEN MapDelete(hs, from) ELSE MapSet(hs, from, rest)
    ELSE hs

\* a bug: the new owner's set is replaced by the token-id
AddToOwnerReplacing(hs, to, tokenId) ==
    IF to # ZERO_ADDRESS THEN MapSet(hs, to, {tokenId}) ELSE hs

\* if (to !== zero address) holders.get(to).add(tokenId)
AddToOwner(hs, to, tokenId) ==
    IF to # ZERO_ADDRESS
    THEN LET hs1 == IF MapHas(hs, to) THEN hs ELSE MapSet(hs, to, {})
         IN  MapSet(hs1, to, MapGet(hs1, to) \cup {tokenId})
    ELSE hs

\* the body of the loop over transferLogs
ProcessTransferLog(hs, tracked, log) ==
    IF log.tokenId \notin tracked THEN hs
    ELSE AddToOwner(RemoveFromOwner(hs, log.from, log.tokenId), log.to, log.tokenId)

\* currentBlock + BLOCK_INCREMENT > targetBlock ? targetBlock : currentBlock + BLOCK_INCREMENT
ChunkEnd(current, target) ==
    IF current + BLOCK_INCREMENT > target THEN target ELSE current + BLOCK_INCREMENT

\* a bug: the auto-compounder is not deleted before the result is built
BuildLPResultKeepsAll(hs) ==
    SelectSeq([i \in 1..Len(hs) |-> [address |-> hs[i].key, tokenIds |-> hs[i].val]],
              LAMBDA r : r.tokenIds # {})

\* holders.delete(REVERT_AUTOCOMPOUNDER); entries -> LPHolder[], empty ones dropped
BuildLPResult(hs) ==
    LET kept == MapDelete(hs, REVERT_AUTOCOMPOUNDER)
        recs == [i \in 1..Len(kept) |-> [address |-> kept[i].key, tokenIds |-> kept[i].val]]
    IN  SelectSeq(recs, LAMBDA r : r.tokenIds # {})

\* getAllLPBalances: one positions() call per token-id of each holder
PositionCalls(lpHolders) ==
    UNION {{[tokenId |-> t, holderAddress |-> lpHolders[i].address] :
                t \in lpHolders[i].tokenIds} : i \in 1..Len(lpHolders)}

----------------------------------------------------------------------------
(* getAllLPHolders as a state machine, from the end of the seed discovery. *)
(* The position manager is an ERC-721 contract: it logs a mint of a        *)
(* token-id once, from the zero address, and afterwards transfers from the *)
(* current owner only.  The logs of a chunk are revealed one at a time, as *)
(* the loop over transferLogs reaches them.                                *)

LPTargetBlock == 4002

TokenIds == {1, 2}
Owners == {"0xa", "0xb", REVERT_AUTOCOMPOUNDER}
FirstMintBlocks == {1, 2002, LPTargetBlock}

SnapIdle ==
    /\ tokens = TokenList
    /\ transfers = <<>>
    /\ includeLPs = FALSE
    /\ pc = "idle"
    /\ tokIdx = 0
    /\ tokenTransfers = <<>>
    /\ trIdx = 0
    /\ holderBalances = EmptyMap
    /\ lpBalances = <<>>
    /\ result = <<>>

InitLP ==
    /\ SnapIdle /\ IdxIdle /\ SelIdle /\ FetchIdle /\ SeedIdle /\ CallIdle
    /\ lpPc = "chunk"
    /\ tokenIdSet \in SUBSET TokenIds
    /\ chainOwner = [id \in TokenIds |-> "unminted"]
    /\ currentBlock \in FirstMintBlocks
    /\ endBlock = 0
    /\ logBlock = 0
    /\ lastLogs = <<>>
    /\ holders = EmptyMap
    /\ lpResult = <<>>

\* while (currentBlock <= targetBlock): await client.getLogs(fromBlock, toBlock)
FetchChunk ==
    /\ lpPc = "chunk"
    /\ currentBlock <= LPTargetBlock
    /\ endBlock' = ChunkEnd(currentBlock, LPTargetBlock)
    /\ logBlock' = currentBlock
    /\ lastLogs' = <<>>
    /\ lpPc' = "logs"
    /\ UNCHANGED <<tokenIdSet, chainOwner, currentBlock, holders, lpResult>>
    /\ UNCHANGED otherThanLP

\* the logs the position manager can emit next, in a block of the chunk
NextLogs ==
    {l \in [blockNumber : {logBlock, endBlock}, from : Owners \cup {ZERO_ADDRESS},
            to : Owners \cup {ZERO_ADDRESS}, tokenId : TokenIds] :
        /\ l.blockNumber >= logBlock
        /\ chainOwner[l.tokenId] # "burned"
        /\ l.from = (IF chainOwner[l.tokenId] = "unminted" THEN ZERO_ADDRESS
                     ELSE chainOwner[l.tokenId])
        /\ (l.from = ZERO_ADDRESS => l.to # ZERO_ADDRESS)}

\* for (const log of transferLogs): one iteration
ProcessLog ==
    /\ lpPc = "logs"
    /\ \E log \in NextLogs :
          /\ holders' = ProcessTransferLog(holders, tokenIdSet, log)
          /\ chainOwner' = [chainOwner EXCEPT
                               ![log.tokenId] = IF log.to = ZERO_ADDRESS THEN "burned" ELSE log.to]
          /\ logBlock' = log.blockNumber
          /\ lastLogs' = IF lastLogs = <<>> THEN <<log>> ELSE <<lastLogs[Len(lastLogs)], log>>
    /\ UNCHANGED <<lpPc, tokenIdSet, currentBlock, endBlock, lpResult>>
    /\ UNCHANGED otherThanLP

\* a bug: the next chunk starts at the last block of this one
ChunkDoneRepeatsBlock ==
    /\ lpPc = "logs"
    /\ currentBlock' = endBlock
    /\ lpPc' = "chunk"
    /\ UNCHANGED <<tokenIdSet, chainOwner, endBlock, logBlock, lastLogs, holders, lpResult>>
    /\ UNCHANGED otherThanLP

\* the chunk is exhausted: currentBlock = endBlock + 1n
ChunkDone ==
    /\ lpPc = "logs"
    /\ currentBlock' = endBlock + 1
    /\ lpPc' = "chunk"
    /\ UNCHANGED <<tokenIdSet, chainOwner, endBlock, logBlock, lastLogs, holders, lpResult>>
    /\ UNCHANGED otherThanLP

\* client.getLogs throws: the catch logs the error and the function goes on
FetchChunkFails ==
    /\ lpPc = "chunk"
    /\ currentBlock <= LPTargetBlock
    /\ lpPc' = "return"
    /\ UNCHANGED <<tokenIdSet, chainOwner, currentBlock, endBlock, logBlock, lastLogs,
                   holders, lpResult>>
    /\ UNCHANGED otherThanLP

\* the loop ends
ChunksDone ==
    /\ lpPc = "chunk"
    /\ currentBlock > LPTargetBlock
    /\ lpPc' = "return"
    /\ UNCHANGED <<tokenIdSet, chainOwner, currentBlock, endBlock, logBlock, lastLogs,
                   holders, lpResult>>
    /\ UNCHANGED otherThanLP

\* holders.delete(REVERT_AUTOCOMPOUNDER); return result
ReturnLPHolders ==
    /\ lpPc = "return"
    /\ holders' = MapDelete(holders, REVERT_AUTOCOMPOUNDER)
    /\ lpResult' = BuildLPResult(holders)
    /\ lpPc' = "done"
    /\ UNCHANGED <<tokenIdSet, chainOwner, currentBlock, endBlock, logBlock, lastLogs>>
    /\ UNCHANGED otherThanLP

NextLP ==
    FetchChunk \/ ProcessLog \/ ChunkDone \/ FetchChunkFails \/ ChunksDone \/ ReturnLPHolders

SpecLP == InitLP /\ [][NextLP]_vars

----------------------------------------------------------------------------
(* getAllLPHolders from its start: the seed discovery, then the ownership   *)
(* replay.  A pool logs the mint of at most one position here; the receipt  *)
(* of the mint transaction yields the token-id, or cannot be fetched.  The  *)
(* position manager logs the mint of that position at or after              *)
(* firstMintBlock.                                                          *)

MaxSeedAttempts == 3

\* the position minted in a pool
PositionOf(lpAddress) == IF lpAddress = "0xPoolA" THEN 1 ELSE 2

\* what client.getLogs can return for the mint events of a pool
MintLogsOf(lpAddress) ==
    {<<>>} \cup
    {<<[blockNumber |-> b, tokenId |-> PositionOf(lpAddress), receipt |-> ok]>> :
        b \in FirstMintBlocks, ok \in BOOLEAN}

RECURSIVE LowestMintBlock(_, _)
\* firstMintBlock = mintLog.blockNumber < firstMintBlock ? mintLog.blockNumber : firstMintBlock
LowestMintBlock(first, mintLogs) ==
    IF mintLogs = <<>> THEN first
    ELSE LET rest == LowestMintBlock(first, SubSeq(mintLogs, 1, Len(mintLogs) - 1))
             b == mintLogs[Len(mintLogs)].blockNumber
         IN  IF b < rest THEN b ELSE rest

\* the token-ids of the mint logs whose receipt was fetched
SeededTokenIds(mintLogs) ==
    {mintLogs[i].tokenId : i \in {j \in 1..Len(mintLogs) : mintLogs[j].receipt}}

\* a bug: the for-loop over the tokens is left
AfterGiveUpLeavesLoop(idx, n) == n

\* break out of the while loop: the for-loop goes on with the next token
AfterGiveUp(idx, n) == idx + 1

InitSeed ==
    /\ SnapIdle /\ IdxIdle /\ SelIdle /\ FetchIdle /\ CallIdle
    /\ lpPc = "seed"
    /\ tokenIdSet = {}
    /\ chainOwner = [id \in TokenIds |-> "unminted"]
    /\ currentBlock = 0
    /\ endBlock = 0
    /\ logBlock = 0
    /\ lastLogs = <<>>
    /\ holders = EmptyMap
    /\ lpResult = <<>>
    /\ seedIdx = 0
    /\ seedRetries = 0
    /\ firstMintBlock = LPTargetBlock
    /\ seedFailed = {}

\* client.getLogs of the mint events throws; the fetch is tried again
SeedFetchFails ==
    /\ lpPc = "seed"
    /\ seedIdx < Len(tokens)
    /\ seedRetries + 1 # MaxSeedAttempts
    /\ seedRetries' = seedRetries + 1
    /\ UNCHANGED <<seedIdx, firstMintBlock, seedFailed>>
    /\ UNCHANGED <<lpVars, snapVars, idxVars, selVars, fetchVars, callVars>>

\* it throws for the third time: the error is logged and the token is left
SeedFetchGivesUp ==
    /\ lpPc = "seed"
    /\ seedIdx < Len(tokens)
    /\ seedRetries + 1 = MaxSeedAttempts
    /\ seedFailed' = seedFailed \cup {tokens[seedIdx + 1].lpAddress}
    /\ seedIdx' = AfterGiveUp(seedIdx, Len(tokens))
    /\ seedRetries' = 0
    /\ UNCHANGED firstMintBlock
    /\ UNCHANGED <<lpVars, snapVars, idxVars, selVars, fetchVars, callVars>>

\* the mint logs of the token's pool are fetched and processed
SeedFetchOk ==
    /\ lpPc = "seed"
    /\ seedIdx < Len(tokens)
    /\ \E mintLogs \in MintLogsOf(tokens[seedIdx + 1].lpAddress) :
          /\ firstMintBlock' = LowestMintBlock(firstMintBlock, mintLogs)
          /\ tokenIdSet' = tokenIdSet \cup SeededTokenIds(mintLogs)
    /\ seedIdx' = seedIdx + 1
    /\ seedRetries' = 0
    /\ UNCHANGED seedFailed
    /\ UNCHANGED <<lpPc, chainOwner, currentBlock, endBlock, logBlock, lastLogs, holders,
                   lpResult>>
    /\ UNCHANGED <<snapVars, idxVars, selVars, fetchVars, callVars>>

\* the for-loop over the tokens ends: let currentBlock = firstMintBlock
SeedDone ==
    /\ lpPc = "seed"
    /\ seedIdx >= Len(tokens)
    /\ currentBlock' = firstMintBlock
    /\ lpPc' = "chunk"
    /\ UNCHANGED <<tokenIdSet, chainOwner, endBlock, logBlock, lastLogs, holders, lpResult>>
    /\ UNCHANGED <<seedVars, snapVars, idxVars, selVars, fetchVars, callVars>>

NextSeed ==
    \/ SeedFetchFails \/ SeedFetchGivesUp \/ SeedFetchOk \/ SeedDone
    \/ FetchChunk \/ ProcessLog \/ ChunkDone \/ FetchChunkFails \/ ChunksDone
    \/ ReturnLPHolders

SpecSeed == InitSeed /\ [][NextSeed]_vars

\* every awaited getLogs call resolves or rejects, the array of logs it
\* resolves to is finite, and the statements after an await are executed
SeedFairness ==
    /\ WF_vars(SeedFetchOk \/ SeedFetchFails \/ SeedFetchGivesUp)
    /\ WF_vars(SeedDone)
    /\ WF_vars(FetchChunk \/ FetchChunkFails)
    /\ WF_vars(ChunkDone)
    /\ WF_vars(ChunksDone)
    /\ WF_vars(ReturnLPHolders)

SpecSeedFair == SpecSeed /\ SeedFairness

----------------------------------------------------------------------------
(* getAllLPBalances: the positions of the holders returned by               *)
(* getAllLPHolders are read from the position manager and credited to a     *)
(* configured token.  The multicalls succeed and the amounts of a position  *)
(* are those the Uniswap SDK computes, in wei.                              *)

\* positions(tokenId): position 1 pairs the two configured tokens, position 2
\* pairs a configured token with another one
PositionData(tokenId) ==
    IF tokenId = 1
    THEN [token0 |-> "0xTokA", token1 |-> "0xTokB", liquidity |-> 1,
          amount0 |-> Wei(2), amount1 |-> Wei(3)]
    ELSE [token0 |-> "0xWeth", token1 |-> "0xTokB", liquidity |-> 1,
          amount0 |-> Wei(2), amount1 |-> Wei(3)]

\* tokens.find((t) => t.address === position.token0 || t.address === position.token1),
\* addresses compared in lower case
MatchesPosition(t, position) ==
    \/ toLowerCase(t.address) = toLowerCase(position.token0)
    \/ toLowerCase(t.address) = toLowerCase(position.token1)

HasMatchingToken(toks, position) == \E i \in 1..Len(toks) : MatchesPosition(toks[i], position)

MatchingToken(toks, position) ==
    toks[CHOOSE i \in 1..Len(toks) :
            /\ MatchesPosition(toks[i], position)
            /\ \A j \in 1..(i - 1) : ~MatchesPosition(toks[j], position)]

\* the body of the loop over positionResults
CreditPosition(balances, toks, holderAddress, tokenId) ==
    LET position == PositionData(tokenId)
    IN  IF position.liquidity = 0 \/ ~HasMatchingToken(toks, position) THEN balances
        ELSE LET matchingToken == MatchingToken(toks, position)
                 b1 == EnsureHolder(balances, holderAddress)
                 inner == MapGet(b1, holderAddress)
                 amount == IF toLowerCase(matchingToken.address) = toLowerCase(position.token0)
                           THEN normalizeToEther(position.amount0)
                           ELSE normalizeToEther(position.amount1)
                 existing == IF MapHas(inner, matchingToken.address)
                             THEN MapGet(inner, matchingToken.address).lpBalance
                             ELSE NZero
             IN  MapSet(b1, holderAddress,
                        MapSet(inner, matchingToken.address,
                               [balance |-> NZero, lpBalance |-> NAdd(existing, amount)]))

RECURSIVE CreditPositions(_, _, _, _)
\* the positions of one holder, in the order of its token-ids
CreditPositions(balances, toks, holderAddress, ids) ==
    IF ids = {} THEN balances
    ELSE LET last == CHOOSE t \in ids : \A u \in ids : u <= t
         IN  CreditPosition(CreditPositions(balances, toks, holderAddress, ids \ {last}),
                            toks, holderAddress, last)

RECURSIVE CreditHolders(_, _)
CreditHolders(toks, lpHolders) ==
    IF lpHolders = <<>> THEN EmptyMap
    ELSE LET h == lpHolders[Len(lpHolders)]
         IN  CreditPositions(CreditHolders(toks, SubSeq(lpHolders, 1, Len(lpHolders) - 1)),
                             toks, h.address, h.tokenIds)

\* Array.from(balances.entries()).map(...): entries with lpBalance > 0, and
\* the holders that keep one
LPBalanceRecord(e) ==
    [holderAddress |-> e.key,
     balances |-> LET kept == SelectSeq(e.val, LAMBDA te : NSign(te.val.lpBalance) > 0)
                  IN  [i \in 1..Len(kept) |->
                          [tokenAddress |-> kept[i].key,
                           balance |-> kept[i].val.balance,
                           lpBalance |-> kept[i].val.lpBalance]]]

getAllLPBalances(toks, lpHolders) ==
    LET balances == CreditHolders(toks, lpHolders)
        recs == [i \in 1..Len(balances) |-> LPBalanceRecord(balances[i])]
    IN  SelectSeq(recs, LAMBDA r : Len(r.balances) > 0)

\* snapshotHolders(tokens, includeLPs = true) as a function of what it fetches
snapshotHolders(toks, ts, lpHolders) ==
    BuildResult(ExcludePools(MergeLPBalances(ReplayTokens(EmptyMap, toks, ts),
                                             getAllLPBalances(toks, lpHolders)), toks))

MaxLPBalTransfers == 1

\* what getAllLPHolders can return: owners with disjoint, non-empty sets
LPHolderResults ==
    {l \in UNION {[1..n -> [address : {"0xa", "0xb"}, tokenIds : (SUBSET TokenIds) \ {{}}]] :
                     n \in 0..2} :
        \A i, j \in 1..Len(l) :
            i # j => l[i].address # l[j].address /\ l[i].tokenIds \cap l[j].tokenIds = {}}

\* snapshotHolders with includeLPs = true, the tokens listed in either order;
\* getAllLPHolders has returned lpResult
InitLPBal ==
    /\ IdxIdle /\ SelIdle /\ FetchIdle /\ SeedIdle /\ CallIdle
    /\ lpPc = "done"
    /\ tokenIdSet = {}
    /\ chainOwner = <<>>
    /\ currentBlock = 0
    /\ endBlock = 0
    /\ logBlock = 0
    /\ lastLogs = <<>>
    /\ holders = EmptyMap
    /\ lpResult \in LPHolderResults
    /\ tokens \in {TokenList, Reverse(TokenList)}
    /\ transfers \in UNION {[1..n -> Transfer] : n \in 0..MaxLPBalTransfers}
    /\ includeLPs = TRUE
    /\ pc = "tokens"
    /\ tokIdx = 0
    /\ tokenTransfers = <<>>
    /\ trIdx = 0
    /\ holderBalances = EmptyMap
    /\ lpBalances = <<>>
    /\ result = <<>>

\* if (includeLPs): await getAllLPBalances(...) and merge what it returned
MergePositions ==
    /\ pc = "tokens"
    /\ trIdx = Len(tokenTransfers)
    /\ tokIdx = Len(tokens)
    /\ includeLPs
    /\ lpPc = "done"
    /\ lpBalances' = getAllLPBalances(tokens, lpResult)
    /\ holderBalances' = MergeLPBalances(holderBalances, lpBalances')
    /\ pc' = "merged"
    /\ UNCHANGED <<tokens, transfers, includeLPs, tokIdx, tokenTransfers, trIdx, result>>
    /\ UNCHANGED otherThanSnap

NextLPBal == NextToken \/ ReplayTransfer \/ MergePositions \/ Finish

SpecLPBal == InitLPBal /\ [][NextLPBal]_vars

----------------------------------------------------------------------------
(* getWeightedRandomIndex.  The draw randomBuffer[0] / 0xffffffff is a     *)
(* fraction draw / DrawRes of [0, 1]; random and the weights are kept      *)
(* multiplied by DrawRes, which changes no comparison with 0.              *)

DrawRes == 3

Throw(message) == [kind |-> "throw", error |-> message]
Index(i) == [kind |-> "index", index |-> i]

RECURSIVE NSumSeq(_)
\* weights.reduce((sum, weight) => sum + Math.max(0, weight), 0)
NSumSeq(ws) ==
    IF ws = <<>> THEN NZero
    ELSE NAdd(NSumSeq(SubSeq(ws, 1, Len(ws) - 1)), NMax(NZero, ws[Len(ws)]))

\* a bug: a negative weight is subtracted like any other
SkipWeightNever(w) == FALSE

\* if (weights[i] < 0) continue
SkipWeight(w) == NSign(w) < 0

\* if (random <= 0) return i
StopScan(random) == NSign(random) <= 0

RECURSIVE ScanWeights(_, _, _)
\* for (let i = 0; i < weights.length; i++) ..., i the JavaScript index
ScanWeights(ws, i, random) ==
    IF i >= Len(ws) THEN Throw("Failed to select weighted random index")
    ELSE IF SkipWeight(ws[i + 1]) THEN ScanWeights(ws, i + 1, random)
    ELSE LET rest == NSub(random, NScale(DrawRes, ws[i + 1]))
         IN  IF StopScan(rest) THEN Index(i) ELSE ScanWeights(ws, i + 1, rest)

getWeightedRandomIndex(ws, draw) ==
    IF Len(ws) = 0 THEN Throw("Weights array cannot be empty")
    ELSE IF NSign(NSumSeq(ws)) <= 0 THEN Throw("Total weight must be positive")
    ELSE ScanWeights(ws, 0, NScale(draw, NSumSeq(ws)))

MaxWeights == 3
WeightValues == {Plain(-40), NZero, Plain(40), Plain(100)}
WeightArrays == UNION {[1..n -> WeightValues] : n \in 0..MaxWeights}

\* one call of getWeightedRandomIndex on any weights array and any draw
InitIndex ==
    /\ SnapIdle /\ LPIdle /\ SelIdle /\ FetchIdle /\ SeedIdle /\ CallIdle
    /\ wPc = "call"
    /\ wWeights \in WeightArrays
    /\ wDraw \in 0..DrawRes
    /\ wOut = [kind |-> "none"]

CallIndex ==
    /\ wPc = "call"
    /\ wOut' = getWeightedRandomIndex(wWeights, wDraw)
    /\ wPc' = "returned"
    /\ UNCHANGED <<wWeights, wDraw>>
    /\ UNCHANGED otherThanIdx

NextIndex == CallIndex

SpecIndex == InitIndex /\ [][NextIndex]_vars

----------------------------------------------------------------------------
(* getWeightedRandomIndex in the arithmetic of IEEE doubles, on integer    *)
(* weights around 2^53.  <<h, l>> is h * 2^53 + l with h in {-1, 0, 1} and  *)
(* |l| far below 2^53.  Below 2^53 every integer is a double; from 2^53 to  *)
(* 2^54 only the even ones are, and an odd result is a tie that goes to the *)
(* neighbour with the even mantissa, the multiple of 4.                     *)

Small(l) == <<0, l>>
Pow53(l) == <<1, l>>

\* the multiple of 4 next to an odd l > 0
TieToEven(l) == IF (l + 1) % 4 = 0 THEN l + 1 ELSE l - 1

\* the double nearest to h * 2^53 + l
Round64(x) ==
    IF x[1] = 1 /\ x[2] > 0 /\ x[2] % 2 = 1 THEN <<1, TieToEven(x[2])>>
    ELSE IF x[1] = -1 /\ x[2] < 0 /\ (-x[2]) % 2 = 1 THEN <<-1, -TieToEven(-x[2])>>
    ELSE x

DAdd(a, b) == Round64(<<a[1] + b[1], a[2] + b[2]>>)
DSub(a, b) == Round64(<<a[1] - b[1], a[2] - b[2]>>)
DSign(a) == IF a[1] # 0 THEN Sgn(a[1]) ELSE Sgn(a[2])

RECURSIVE TotalWeight64(_)
\* weights.reduce((sum, weight) => sum + Math.max(0, weight), 0)
TotalWeight64(ws) ==
    IF ws = <<>> THEN Small(0)
    ELSE DAdd(TotalWeight64(SubSeq(ws, 1, Len(ws) - 1)),
              IF DSign(ws[Len(ws)]) < 0 THEN Small(0) ELSE ws[Len(ws)])

RECURSIVE ScanWeights64(_, _, _)
\* the scan loop, i the JavaScript index
ScanWeights64(ws, i, random) ==
    IF i >= Len(ws) THEN Throw("Failed to select weighted random index")
    ELSE IF DSign(ws[i + 1]) < 0 THEN ScanWeights64(ws, i + 1, random)
    ELSE LET rest == DSub(random, ws[i + 1])
         IN  IF DSign(rest) <= 0 THEN Index(i) ELSE ScanWeights64(ws, i + 1, rest)

\* draw is randomBuffer[0] / 0xffffffff at its two ends, 0 and 1, where the
\* product with totalWeight is exact
getWeightedRandomIndex64(ws, draw) ==
    IF Len(ws) = 0 THEN Throw("Weights array cannot be empty")
    ELSE IF DSign(TotalWeight64(ws)) <= 0 THEN Throw("Total weight must be positive")
    ELSE ScanWeights64(ws, 0, IF draw = 0 THEN Small(0) ELSE TotalWeight64(ws))

MaxWeights64 == 3

\* weights sorted by non-increasing value, as getRandomWinners passes them
\* at its first draw; at most one of them is 2^53
WeightArrays64 ==
    {ws \in UNION {[1..n -> {Pow53(0), Small(4), Small(3), Small(2), Small(1)}] :
                      n \in 0..MaxWeights64} :
        /\ \A i \in 2..Len(ws) : ws[i] # Pow53(0)
        /\ \A i, j \in 1..Len(ws) : (i < j /\ ws[i][1] = 0) => ws[i][2] >= ws[j][2]}

InitIndex64 ==
    /\ SnapIdle /\ LPIdle /\ SelIdle /\ FetchIdle /\ SeedIdle /\ CallIdle
    /\ wPc = "call"
    /\ wWeights \in WeightArrays64
    /\ wDraw \in {0, 1}
    /\ wOut = [kind |-> "none"]

CallIndex64 ==
    /\ wPc = "call"
    /\ wOut' = getWeightedRandomIndex64(wWeights, wDraw)
    /\ wPc' = "returned"
    /\ UNCHANGED <<wWeights, wDraw>>
    /\ UNCHANGED otherThanIdx

SpecIndex64 == InitIndex64 /\ [][CallIndex64]_vars

----------------------------------------------------------------------------
(* getRandomWinners.                                                       *)

\* holder.balances.reduce((sum, b) => sum + normalizeToEther(b.balance)
\*                                      + lpWeight * normalizeToEther(b.lpBalance), 0)
RECURSIVE WeightOf(_, _)
WeightOf(bals, lpW) ==
    IF bals = <<>> THEN NZero
    ELSE LET b == bals[Len(bals)]
         IN  NAdd(NAdd(WeightOf(SubSeq(bals, 1, Len(bals) - 1), lpW),
                       normalizeToEther(b.balance)),
                  NScale(lpW, normalizeToEther(b.lpBalance)))

\* holders.map((holder) => ({address, weight, balances: [holder]}))
WithWeights(hs, lpW) ==
    [i \in 1..Len(hs) |->
        [address |-> hs[i].holderAddress,
         weight |-> WeightOf(hs[i].balances, lpW),
         balances |-> <<hs[i]>>]]

\* a bug: ascending instead of descending
InsertByWeightAscending(sorted, w) ==
    LET n == Cardinality({i \in 1..Len(sorted) : NLe(sorted[i].weight, w.weight)})
    IN  SubSeq(sorted, 1, n) \o <<w>> \o SubSeq(sorted, n + 1, Len(sorted))

\* sort((a, b) => b.weight - a.weight) is stable: an element goes after
\* every element whose weight is >= its own
InsertByWeight(sorted, w) ==
    LET n == Cardinality({i \in 1..Len(sorted) : NLe(w.weight, sorted[i].weight)})
    IN  SubSeq(sorted, 1, n) \o <<w>> \o SubSeq(sorted, n + 1, Len(sorted))

RECURSIVE SortByWeight(_)
SortByWeight(ws) ==
    IF ws = <<>> THEN <<>>
    ELSE InsertByWeight(SortByWeight(SubSeq(ws, 1, Len(ws) - 1)), ws[Len(ws)])

\* a bug: the loop counts the winners pushed, with no check of the Set
AlreadyWonNever(ws, address) == FALSE

\* winners.has(winner.address)
AlreadyWon(ws, address) == address \in ws

\* winners.size < numberOfWinners && winners.size < holdersWithWeights.length
LoopGoesOn(won, k, hww) == Cardinality(won) < k /\ Cardinality(won) < Len(hww)

Returned(ws) == [kind |-> "return", winners |-> ws]

MaxWinners == 3
LpWeights == {0, 2}

\* every one of three holders and a pool is minted 40, 100 or nothing, the
\* mints delivered in either order
SelAddresses == <<"0xa", "0xb", "0xc", "0xpoola">>

MintsOf(amounts) ==
    LET all == [i \in 1..Len(SelAddresses) |->
                  [token |-> "0xtoka", blockNum |-> 1, from |-> ZERO_ADDRESS,
                   to |-> SelAddresses[i], value |-> Plain(amounts[i])]]
    IN  SelectSeq(all, LAMBDA t : t.value # NZero)

SelTransferLists ==
    LET lists == {MintsOf(f) : f \in [1..Len(SelAddresses) -> {0, 40, 100}]}
    IN  lists \cup {Reverse(l) : l \in lists}

InitSelect ==
    /\ LPIdle /\ IdxIdle /\ FetchIdle /\ SeedIdle /\ CallIdle
    /\ tokens = TokenList
    /\ transfers \in SelTransferLists
    /\ lpWeight \in LpWeights
    /\ includeLPs = (lpWeight > 0)
    /\ pc = "tokens"
    /\ tokIdx = 0
    /\ tokenTransfers = <<>>
    /\ trIdx = 0
    /\ holderBalances = EmptyMap
    /\ lpBalances = <<>>
    /\ result = <<>>
    /\ selPc = "snapshot"
    /\ numberOfWinners \in 0..MaxWinners
    /\ holdersWithWeights = <<>>
    /\ weights = <<>>
    /\ winners = {}
    /\ selectedWinners = <<>>
    /\ drew = FALSE
    /\ selOut = [kind |-> "none"]

\* snapshotHolders has returned; numberOfWinners >= holdersWithWeights.length
ReturnAll ==
    /\ selPc = "snapshot" /\ pc = "done"
    /\ LET hww == SortByWeight(WithWeights(result, lpWeight))
       IN  /\ numberOfWinners >= Len(hww)
           /\ holdersWithWeights' = hww
           /\ selOut' = Returned(hww)
    /\ selPc' = "returned"
    /\ UNCHANGED <<lpWeight, numberOfWinners, weights, winners, selectedWinners, drew>>
    /\ UNCHANGED otherThanSel

\* snapshotHolders has returned; the selection loop is entered
StartLoop ==
    /\ selPc = "snapshot" /\ pc = "done"
    /\ LET hww == SortByWeight(WithWeights(result, lpWeight))
       IN  /\ numberOfWinners < Len(hww)
           /\ holdersWithWeights' = hww
           /\ weights' = [i \in 1..Len(hww) |-> hww[i].weight]
    /\ winners' = {}
    /\ selectedWinners' = <<>>
    /\ selPc' = "loop"
    /\ UNCHANGED <<lpWeight, numberOfWinners, drew, selOut>>
    /\ UNCHANGED otherThanSel

\* one iteration of the while loop
Draw ==
    /\ selPc = "loop"
    /\ LoopGoesOn(winners, numberOfWinners, holdersWithWeights)
    /\ drew' = TRUE
    /\ \E draw \in 0..DrawRes :
          LET selected == getWeightedRandomIndex(weights, draw)
          IN  IF selected.kind = "throw"
              THEN /\ selOut' = selected
                   /\ selPc' = "threw"
                   /\ UNCHANGED <<weights, winners, selectedWinners>>
              ELSE LET winner == holdersWithWeights[selected.index + 1]
                   IN  /\ IF ~AlreadyWon(winners, winner.address)
                          THEN /\ winners' = winners \cup {winner.address}
                               /\ selectedWinners' = Append(selectedWinners, winner)
                               /\ weights' = [weights EXCEPT ![selected.index + 1] = NZero]
                          ELSE UNCHANGED <<weights, winners, selectedWinners>>
                       /\ UNCHANGED <<selPc, selOut>>
    /\ UNCHANGED <<lpWeight, numberOfWinners, holdersWithWeights>>
    /\ UNCHANGED otherThanSel

\* return selectedWinners.sort((a, b) => b.weight - a.weight)
ReturnSelected ==
    /\ selPc = "loop"
    /\ ~LoopGoesOn(winners, numberOfWinners, holdersWithWeights)
    /\ selOut' = Returned(SortByWeight(selectedWinners))
    /\ selPc' = "returned"
    /\ UNCHANGED <<lpWeight, numberOfWinners, holdersWithWeights, weights, winners,
                   selectedWinners, drew>>
    /\ UNCHANGED otherThanSel

NextSelect ==
    \/ NextToken \/ ReplayTransfer \/ MergeLPs \/ SkipLPs \/ Finish
    \/ ReturnAll \/ StartLoop \/ Draw \/ ReturnSelected

SpecSelect == InitSelect /\ [][NextSelect]_vars

----------------------------------------------------------------------------
(* getRandomWinners over holders whose balances reach 1e18 and more.       *)

MaxHeavyTransfers == 2

\* mints of exactly 1e18 (which normalizeToEther leaves as it is) to one
\* holder and of 40 to another
HeavyTransfer ==
    {[token |-> "0xtoka", blockNum |-> 1, from |-> ZERO_ADDRESS, to |-> "0xa",
      value |-> Wei(1)],
     [token |-> "0xtoka", blockNum |-> 1, from |-> ZERO_ADDRESS, to |-> "0xb",
      value |-> Plain(40)]}

HeavyTransferLists == UNION {[1..n -> HeavyTransfer] : n \in 0..MaxHeavyTransfers}

InitHeavy ==
    /\ LPIdle /\ IdxIdle /\ FetchIdle /\ SeedIdle /\ CallIdle
    /\ tokens = TokenList
    /\ transfers \in HeavyTransferLists
    /\ lpWeight \in LpWeights
    /\ includeLPs = (lpWeight > 0)
    /\ pc = "tokens"
    /\ tokIdx = 0
    /\ tokenTransfers = <<>>
    /\ trIdx = 0
    /\ holderBalances = EmptyMap
    /\ lpBalances = <<>>
    /\ result = <<>>
    /\ selPc = "snapshot"
    /\ numberOfWinners \in 0..MaxWinners
    /\ holdersWithWeights = <<>>
    /\ weights = <<>>
    /\ winners = {}
    /\ selectedWinners = <<>>
    /\ drew = FALSE
    /\ selOut = [kind |-> "none"]

SpecHeavy == InitHeavy /\ [][NextSelect]_vars

----------------------------------------------------------------------------
(* getAllTransfers, and the methods getBalanceSnapshot and getRandomWinners *)
(* of DaosWorldIndexer, which reach it through snapshotHolders.  A page of  *)
(* the provider is a sequence of transfers; the page key of a page is its   *)
(* index, and a page carries a page key if it is not the last one.          *)

MAX_RETRIES == 3

\* Math.min(...transfers.transfers.map((t) => Number(t.blockNum)))
LowestBlockInPage(page) ==
    CHOOSE b \in {page[i].blockNum : i \in 1..Len(page)} :
        \A i \in 1..Len(page) : b <= page[i].blockNum

\* a bug: a page whose lowest block is the target block ends the fetch
MorePagesBeforeTarget(page, key, ps, target) ==
    LowestBlockInPage(page) < target /\ key < Len(ps)

\* lowestBlockInPage <= blockNumber && transfers.pageKey
MorePages(page, key, ps, target) == LowestBlockInPage(page) <= target /\ key < Len(ps)

\* a bug: everything fetched is returned
FilterToBlockKeepsAll(ts, target) == ts

\* allTransfers.filter((transfer) => Number(transfer.blockNum) <= blockNumber)
FilterToBlock(ts, target) == SelectSeq(ts, LAMBDA t : t.blockNum <= target)

\* a bug: the failures are counted over the whole fetch, not per page
RetriesOfNextPageKept(r) == r

\* let retries = 0, at the top of the outer loop
RetriesOfNextPage(r) == 0

MaxFetched == 3
TargetBlock == 2

\* mints of one token to one holder, in the blocks around the target block
FetchedTransfer ==
    [token : {"0xtoka"}, blockNum : {TargetBlock - 1, TargetBlock, TargetBlock + 1},
     from : {ZERO_ADDRESS}, to : {"0xa"}, value : {Plain(40)}]

RECURSIVE PageListsOf(_)
\* the ways n transfers come in non-empty pages
PageListsOf(n) ==
    IF n = 0 THEN {<<>>}
    ELSE UNION {{<<page>> \o rest : page \in [1..k -> FetchedTransfer],
                                    rest \in PageListsOf(n - k)} : k \in 1..n}

\* up to MaxFetched transfers in pages; the provider may also end with an
\* empty page
PageLists ==
    LET full == UNION {PageListsOf(n) : n \in 1..MaxFetched}
    IN  {<< <<>> >>} \cup full \cup {ps \o << <<>> >> : ps \in full}

RECURSIVE Flatten(_)
\* everything the provider holds, in the order of its pages
Flatten(ps) ==
    IF ps = <<>> THEN <<>> ELSE Flatten(SubSeq(ps, 1, Len(ps) - 1)) \o ps[Len(ps)]

\* the provider delivers oldest first / most recent first
OldestFirst(ts) == \A i, j \in 1..Len(ts) : i < j => ts[i].blockNum <= ts[j].blockNum
MostRecentFirst(ts) == \A i, j \in 1..Len(ts) : i < j => ts[i].blockNum >= ts[j].blockNum

InitFetch ==
    /\ LPIdle /\ IdxIdle /\ SeedIdle /\ CallIdle
    /\ ftPc = "page"
    /\ blockNumber = TargetBlock
    /\ pages \in PageLists
    /\ pageKey = 1
    /\ retries = 0
    /\ allTransfers = <<>>
    /\ caller \in {"getBalanceSnapshot", "getRandomWinners"}
    /\ csvExportFilename \in {"", "out.csv"}
    /\ exported = "none"
    /\ tokens = TokenList
    /\ transfers = <<>>
    /\ includeLPs = FALSE
    /\ pc = "fetching"
    /\ tokIdx = 0
    /\ tokenTransfers = <<>>
    /\ trIdx = 0
    /\ holderBalances = EmptyMap
    /\ lpBalances = <<>>
    /\ result = <<>>
    /\ selPc = (IF caller = "getRandomWinners" THEN "snapshot" ELSE "idle")
    /\ lpWeight = 0
    /\ numberOfWinners = (IF caller = "getRandomWinners" THEN 1 ELSE 0)
    /\ holdersWithWeights = <<>>
    /\ weights = <<>>
    /\ winners = {}
    /\ selectedWinners = <<>>
    /\ drew = FALSE
    /\ selOut = [kind |-> "none"]

\* a page is fetched and another one is to be fetched: the outer loop goes on
FetchPage ==
    /\ ftPc = "page"
    /\ LET page == pages[pageKey]
       IN  /\ Len(page) > 0
           /\ MorePages(page, pageKey, pages, blockNumber)
           /\ allTransfers' = allTransfers \o page
    /\ pageKey' = pageKey + 1
    /\ retries' = RetriesOfNextPage(retries)
    /\ UNCHANGED <<ftPc, blockNumber, pages, caller, csvExportFilename, exported>>
    /\ UNCHANGED <<snapVars, lpVars, idxVars, selVars, seedVars, callVars>>

\* the page fetched is empty, or is the last one, or lies wholly after the
\* target block: both loops end, the transfers are filtered and returned
FetchLastPage ==
    /\ ftPc = "page"
    /\ LET page == pages[pageKey]
       IN  /\ IF Len(page) = 0 THEN TRUE ELSE ~MorePages(page, pageKey, pages, blockNumber)
           /\ allTransfers' = allTransfers \o page
    /\ transfers' = FilterToBlock(allTransfers', blockNumber)
    /\ ftPc' = "returned"
    /\ pc' = "tokens"
    /\ UNCHANGED <<blockNumber, pages, pageKey, retries, caller, csvExportFilename, exported>>
    /\ UNCHANGED <<tokens, includeLPs, tokIdx, tokenTransfers, trIdx, holderBalances,
                   lpBalances, result>>
    /\ UNCHANGED <<lpVars, idxVars, selVars, seedVars, callVars>>

\* a bug: the page is appended before the attempt fails
FetchPageFailsAppended ==
    /\ ftPc = "page"
    /\ retries + 1 # MAX_RETRIES
    /\ retries' = retries + 1
    /\ allTransfers' = allTransfers \o pages[pageKey]
    /\ UNCHANGED <<ftPc, blockNumber, pages, pageKey, caller, csvExportFilename, exported>>
    /\ UNCHANGED <<snapVars, lpVars, idxVars, selVars, seedVars, callVars>>

\* getAssetTransfers throws and the page is tried again
FetchPageFails ==
    /\ ftPc = "page"
    /\ retries + 1 # MAX_RETRIES
    /\ retries' = retries + 1
    /\ UNCHANGED <<ftPc, blockNumber, pages, pageKey, allTransfers, caller,
                   csvExportFilename, exported>>
    /\ UNCHANGED <<snapVars, lpVars, idxVars, selVars, seedVars, callVars>>

\* getAssetTransfers throws for the MAX_RETRIES-th time: getAllTransfers
\* throws, and neither snapshotHolders nor its callers catch the error
FetchPageThrows ==
    /\ ftPc = "page"
    /\ retries + 1 = MAX_RETRIES
    /\ retries' = retries + 1
    /\ ftPc' = "threw"
    /\ pc' = "threw"
    /\ IF caller = "getRandomWinners"
       THEN /\ selPc' = "threw"
            /\ selOut' = Throw("Failed to fetch transfers after 3 attempts")
       ELSE UNCHANGED <<selPc, selOut>>
    /\ UNCHANGED <<blockNumber, pages, pageKey, allTransfers, caller, csvExportFilename,
                   exported>>
    /\ UNCHANGED <<tokens, transfers, includeLPs, tokIdx, tokenTransfers, trIdx,
                   holderBalances, lpBalances, result>>
    /\ UNCHANGED <<lpWeight, numberOfWinners, holdersWithWeights, weights, winners,
                   selectedWinners, drew>>
    /\ UNCHANGED <<lpVars, idxVars, seedVars, callVars>>

\* getBalanceSnapshot: if (csvExportFilename) await exportSnapshotToCSV(...)
ExportSnapshot ==
    /\ caller = "getBalanceSnapshot"
    /\ pc = "done"
    /\ csvExportFilename # ""
    /\ exported = "none"
    /\ exported' = "snapshot"
    /\ UNCHANGED <<ftPc, blockNumber, pages, pageKey, retries, allTransfers, caller,
                   csvExportFilename>>
    /\ UNCHANGED <<snapVars, lpVars, idxVars, selVars, seedVars, callVars>>

\* DaosWorldIndexer.getRandomWinners: if (csvExportFilename) await exportWinnersToCSV(...)
ExportWinners ==
    /\ caller = "getRandomWinners"
    /\ selPc = "returned"
    /\ csvExportFilename # ""
    /\ exported = "none"
    /\ exported' = "winners"
    /\ UNCHANGED <<ftPc, blockNumber, pages, pageKey, retries, allTransfers, caller,
                   csvExportFilename>>
    /\ UNCHANGED <<snapVars, lpVars, idxVars, selVars, seedVars, callVars>>

NextFetch ==
    \/ FetchPage \/ FetchLastPage \/ FetchPageFails \/ FetchPageThrows
    \/ NextToken \/ ReplayTransfer \/ SkipLPs \/ Finish
    \/ ReturnAll \/ ExportSnapshot \/ ExportWinners

SpecFetch == InitFetch /\ [][NextFetch]_vars

----------------------------------------------------------------------------
(* The remote calls and the delays of snapshotHolders(includeLPs = true):  *)
(* getAllTransfers, then in getAllLPBalances the seed discovery and the     *)
(* ownership replay of getAllLPHolders, the slot0 multicall and the         *)
(* position multicalls.  Only what is awaited is followed: lastAwait is the *)
(* remote call awaited last, or "delay".                                    *)

CHUNK_SIZE == 100

MaxPages == 2
MaxMintLogs == 2
MaxChunks == 2

RemoteCalls ==
    {"getAssetTransfers", "getLogs(pool)", "getTransactionReceipt",
     "getLogs(positionManager)", "multicall(slot0)", "multicall(positions)"}

\* a remote call is issued: it is back to back with the call awaited last
\* if no delay was awaited in between
Issued(call) ==
    IF lastAwait \in RemoteCalls THEN backToBack \cup {<<lastAwait, call>>} ELSE backToBack

\* a mint log of a pool: without transaction hash, or with a receipt that
\* holds the position manager's transfer log, holds none, or cannot be fetched
MintLogKinds == {"noHash", "tokenId", "noTransferLog", "throws"}
MintLogLists == UNION {[1..n -> MintLogKinds] : n \in 0..MaxMintLogs}

InitCalls ==
    /\ SnapIdle /\ LPIdle /\ IdxIdle /\ SelIdle /\ FetchIdle /\ SeedIdle
    /\ callPc = "transfers"
    /\ lastAwait = "none"
    /\ backToBack = {}
    /\ callRetries = 0
    /\ pagesLeft \in 1..MaxPages
    /\ poolsLeft = Len(TokenList)
    /\ receiptsLeft = <<>>
    /\ chunksLeft \in 1..MaxChunks
    /\ positionCalls \in {0, 1, CHUNK_SIZE, CHUNK_SIZE + 1}
    /\ batchStart = 0

\* getAllTransfers: a page is fetched and the fetch goes on: delay(DELAY_LONG)
CallPage ==
    /\ callPc = "transfers"
    /\ pagesLeft > 1
    /\ backToBack' = Issued("getAssetTransfers")
    /\ lastAwait' = "delay"
    /\ pagesLeft' = pagesLeft - 1
    /\ callRetries' = 0
    /\ UNCHANGED <<callPc, poolsLeft, receiptsLeft, chunksLeft, positionCalls, batchStart>>
    /\ UNCHANGED <<snapVars, lpVars, idxVars, selVars, fetchVars, seedVars>>

\* the page is empty, or has no page key, or lies after the target: break
CallLastPage ==
    /\ callPc = "transfers"
    /\ pagesLeft = 1
    /\ backToBack' = Issued("getAssetTransfers")
    /\ lastAwait' = "getAssetTransfers"
    /\ pagesLeft' = 0
    /\ callPc' = "seed"
    /\ callRetries' = 0
    /\ UNCHANGED <<poolsLeft, receiptsLeft, chunksLeft, positionCalls, batchStart>>
    /\ UNCHANGED <<snapVars, lpVars, idxVars, selVars, fetchVars, seedVars>>

\* getAssetTransfers throws: delay(DELAY_ERROR) and retry
CallPageFails ==
    /\ callPc = "transfers"
    /\ callRetries + 1 # MAX_RETRIES
    /\ backToBack' = Issued("getAssetTransfers")
    /\ lastAwait' = "delay"
    /\ callRetries' = callRetries + 1
    /\ UNCHANGED <<callPc, pagesLeft, poolsLeft, receiptsLeft, chunksLeft, positionCalls,
                   batchStart>>
    /\ UNCHANGED <<snapVars, lpVars, idxVars, selVars, fetchVars, seedVars>>

\* it throws for the MAX_RETRIES-th time: getAllTransfers throws
CallPageThrows ==
    /\ callPc = "transfers"
    /\ callRetries + 1 = MAX_RETRIES
    /\ backToBack' = Issued("getAssetTransfers")
    /\ lastAwait' = "getAssetTransfers"
    /\ callRetries' = callRetries + 1
    /\ callPc' = "threw"
    /\ UNCHANGED <<pagesLeft, poolsLeft, receiptsLeft, chunksLeft, positionCalls, batchStart>>
    /\ UNCHANGED <<snapVars, lpVars, idxVars, selVars, fetchVars, seedVars>>

\* the seed discovery: getLogs of a pool's mint events, then delay(DELAY_LONG)
CallMintLogs ==
    /\ callPc = "seed"
    /\ poolsLeft > 0
    /\ backToBack' = Issued("getLogs(pool)")
    /\ lastAwait' = "delay"
    /\ receiptsLeft' \in MintLogLists
    /\ callPc' = "receipts"
    /\ UNCHANGED <<callRetries, pagesLeft, poolsLeft, chunksLeft, positionCalls, batchStart>>
    /\ UNCHANGED <<snapVars, lpVars, idxVars, selVars, fetchVars, seedVars>>

\* getLogs throws: delay(DELAY_ERROR); after the third failure the token is
\* left, and delay(DELAY_LONG) ends its iteration
CallMintLogsFails ==
    /\ callPc = "seed"
    /\ poolsLeft > 0
    /\ backToBack' = Issued("getLogs(pool)")
    /\ lastAwait' = "delay"
    /\ IF callRetries + 1 = MaxSeedAttempts
       THEN callRetries' = 0 /\ poolsLeft' = poolsLeft - 1
       ELSE callRetries' = callRetries + 1 /\ UNCHANGED poolsLeft
    /\ UNCHANGED <<callPc, pagesLeft, receiptsLeft, chunksLeft, positionCalls, batchStart>>
    /\ UNCHANGED <<snapVars, lpVars, idxVars, selVars, fetchVars, seedVars>>

\* if (!mintLog.transactionHash) continue
SkipMintLog ==
    /\ callPc = "receipts"
    /\ receiptsLeft # <<>>
    /\ Head(receiptsLeft) = "noHash"
    /\ receiptsLeft' = Tail(receiptsLeft)
    /\ UNCHANGED <<callPc, lastAwait, backToBack, callRetries, pagesLeft, poolsLeft,
                   chunksLeft, positionCalls, batchStart>>
    /\ UNCHANGED <<snapVars, lpVars, idxVars, selVars, fetchVars, seedVars>>

\* getTransactionReceipt: the token-id is registered, or the error is
\* caught; delay(DELAY_SHORT)
CallReceipt ==
    /\ callPc = "receipts"
    /\ receiptsLeft # <<>>
    /\ Head(receiptsLeft) \in {"tokenId", "throws"}
    /\ backToBack' = Issued("getTransactionReceipt")
    /\ lastAwait' = "delay"
    /\ receiptsLeft' = Tail(receiptsLeft)
    /\ UNCHANGED <<callPc, callRetries, pagesLeft, poolsLeft, chunksLeft, positionCalls,
                   batchStart>>
    /\ UNCHANGED <<snapVars, lpVars, idxVars, selVars, fetchVars, seedVars>>

\* getTransactionReceipt: if (!transferLog?.topics[3]) continue
CallReceiptNoTransferLog ==
    /\ callPc = "receipts"
    /\ receiptsLeft # <<>>
    /\ Head(receiptsLeft) = "noTransferLog"
    /\ backToBack' = Issued("getTransactionReceipt")
    /\ lastAwait' = "getTransactionReceipt"
    /\ receiptsLeft' = Tail(receiptsLeft)
    /\ UNCHANGED <<callPc, callRetries, pagesLeft, poolsLeft, chunksLeft, positionCalls,
                   batchStart>>
    /\ UNCHANGED <<snapVars, lpVars, idxVars, selVars, fetchVars, seedVars>>

\* the mint logs are done: success = true, and delay(DELAY_LONG) ends the
\* token's iteration
ReceiptsDone ==
    /\ callPc = "receipts"
    /\ receiptsLeft = <<>>
    /\ lastAwait' = "delay"
    /\ poolsLeft' = poolsLeft - 1
    /\ callRetries' = 0
    /\ callPc' = "seed"
    /\ UNCHANGED <<backToBack, pagesLeft, receiptsLeft, chunksLeft, positionCalls, batchStart>>
    /\ UNCHANGED <<snapVars, lpVars, idxVars, selVars, fetchVars, seedVars>>

\* the for-loop over the tokens ends
PoolsDone ==
    /\ callPc = "seed"
    /\ poolsLeft = 0
    /\ callPc' = "chunks"
    /\ UNCHANGED <<lastAwait, backToBack, callRetries, pagesLeft, poolsLeft, receiptsLeft,
                   chunksLeft, positionCalls, batchStart>>
    /\ UNCHANGED <<snapVars, lpVars, idxVars, selVars, fetchVars, seedVars>>

\* the ownership replay: getLogs of a chunk, then delay(DELAY_LONG)
CallChunk ==
    /\ callPc = "chunks"
    /\ chunksLeft > 0
    /\ backToBack' = Issued("getLogs(positionManager)")
    /\ lastAwait' = "delay"
    /\ chunksLeft' = chunksLeft - 1
    /\ UNCHANGED <<callPc, callRetries, pagesLeft, poolsLeft, receiptsLeft, positionCalls,
                   batchStart>>
    /\ UNCHANGED <<snapVars, lpVars, idxVars, selVars, fetchVars, seedVars>>

\* getLogs throws: the catch logs the error and getAllLPHolders returns
CallChunkFails ==
    /\ callPc = "chunks"
    /\ chunksLeft > 0
    /\ backToBack' = Issued("getLogs(positionManager)")
    /\ lastAwait' = "getLogs(positionManager)"
    /\ callPc' = "slot0"
    /\ UNCHANGED <<callRetries, pagesLeft, poolsLeft, receiptsLeft, chunksLeft, positionCalls,
                   batchStart>>
    /\ UNCHANGED <<snapVars, lpVars, idxVars, selVars, fetchVars, seedVars>>

\* the while loop over the chunks ends
ChunksEnd ==
    /\ callPc = "chunks"
    /\ chunksLeft = 0
    /\ callPc' = "slot0"
    /\ UNCHANGED <<lastAwait, backToBack, callRetries, pagesLeft, poolsLeft, receiptsLeft,
                   chunksLeft, positionCalls, batchStart>>
    /\ UNCHANGED <<snapVars, lpVars, idxVars, selVars, fetchVars, seedVars>>

\* getAllLPBalances: the multicall of slot0 over the pools
CallSlot0 ==
    /\ callPc = "slot0"
    /\ backToBack' = Issued("multicall(slot0)")
    /\ lastAwait' = "multicall(slot0)"
    /\ callPc' = "positions"
    /\ batchStart' = 0
    /\ UNCHANGED <<callRetries, pagesLeft, poolsLeft, receiptsLeft, chunksLeft, positionCalls>>
    /\ UNCHANGED <<snapVars, lpVars, idxVars, selVars, fetchVars, seedVars>>

\* for (let i = 0; i < positionCalls.length; i += CHUNK_SIZE): one multicall
CallPositions ==
    /\ callPc = "positions"
    /\ batchStart < positionCalls
    /\ backToBack' = Issued("multicall(positions)")
    /\ lastAwait' = "multicall(positions)"
    /\ batchStart' = batchStart + CHUNK_SIZE
    /\ UNCHANGED <<callPc, callRetries, pagesLeft, poolsLeft, receiptsLeft, chunksLeft,
                   positionCalls>>
    /\ UNCHANGED <<snapVars, lpVars, idxVars, selVars, fetchVars, seedVars>>

\* the loop over the batches ends
PositionsDone ==
    /\ callPc = "positions"
    /\ batchStart >= positionCalls
    /\ callPc' = "done"
    /\ UNCHANGED <<lastAwait, backToBack, callRetries, pagesLeft, poolsLeft, receiptsLeft,
                   chunksLeft, positionCalls, batchStart>>
    /\ UNCHANGED <<snapVars, lpVars, idxVars, selVars, fetchVars, seedVars>>

NextCalls ==
    \/ CallPage \/ CallLastPage \/ CallPageFails \/ CallPageThrows
    \/ CallMintLogs \/ CallMintLogsFails \/ SkipMintLog \/ CallReceipt
    \/ CallReceiptNoTransferLog \/ ReceiptsDone \/ PoolsDone
    \/ CallChunk \/ CallChunkFails \/ ChunksEnd
    \/ CallSlot0 \/ CallPositions \/ PositionsDone

SpecCalls == InitCalls /\ [][NextCalls]_vars

----------------------------------------------------------------------------
(* Vocabulary of the claims about the token replay.                        *)

RECURSIVE NSum(_, _)
\* the sum of f[i] over the finite set of indices I
NSum(f, I) ==
    IF I = {} THEN NZero
    ELSE LET i == CHOOSE x \in I : TRUE IN NAdd(f[i], NSum(f, I \ {i}))

\* the balance the ledger stores for an address and a token, 0 if none
LedgerBalance(hb, holder, tokenAddress) ==
    IF MapHas(hb, holder) THEN FieldOr0(MapGet(hb, holder), tokenAddress, "balance")
    ELSE NZero

\* the amount the replay uses for a transfer
AmountOf(t) == normalizeToEther(t.value)

Received(ts, a) ==
    NSum([i \in 1..Len(ts) |-> AmountOf(ts[i])], {i \in 1..Len(ts) : ts[i].to = a})
Sent(ts, a) ==
    NSum([i \in 1..Len(ts) |-> AmountOf(ts[i])], {i \in 1..Len(ts) : ts[i].from = a})
Net(ts, a) == NSub(Received(ts, a), Sent(ts, a))

\* no debit exceeds the sender's running balance when it is applied
NoOverdraw(ts) ==
    \A i \in 1..Len(ts) :
        ts[i].from # ZERO_ADDRESS =>
            NLe(AmountOf(ts[i]), Net(SubSeq(ts, 1, i - 1), ts[i].from))

\* the amount by which the i-th debit exceeds the sender's running balance
DeficitAt(ts, i) ==
    IF ts[i].from = ZERO_ADDRESS THEN NZero
    ELSE LET before == ReplayList(EmptyMap, TokenList[1], SubSeq(ts, 1, i - 1))
             running == LedgerBalance(before, ts[i].from, TokenList[1].address)
         IN  NMax(NZero, NSub(AmountOf(ts[i]), running))

ClampedDeficit(ts) == NSum([i \in 1..Len(ts) |-> DeficitAt(ts, i)], 1..Len(ts))

SumOfBalances(hb, tokenAddress) ==
    NSum([i \in 1..Len(hb) |-> FieldOr0(hb[i].val, tokenAddress, "balance")], 1..Len(hb))

NonZeroHolders == {"0xa", "0xb", "0xpoola"}

\* the replay of the first token's transfers has just been completed
TokenReplayed == pc = "tokens" /\ tokIdx = 1 /\ trIdx = Len(tokenTransfers)

ExampleTransfers ==
    << [token |-> "0xtoka", blockNum |-> 1, from |-> ZERO_ADDRESS, to |-> "0xa",
        value |-> Plain(100)],
       [token |-> "0xtoka", blockNum |-> 2, from |-> "0xa", to |-> "0xb",
        value |-> Plain(40)] >>

ExampleResult ==
    << [holderAddress |-> "0xa",
        balances |-> <<[tokenAddress |-> "0xTokA", balance |-> Plain(60), lpBalance |-> NZero]>>],
       [holderAddress |-> "0xb",
        balances |-> <<[tokenAddress |-> "0xTokA", balance |-> Plain(40), lpBalance |-> NZero]>>] >>

----------------------------------------------------------------------------
(* Claims about the token replay of snapshotHolders.                       *)

\* C1: when the replay of a token's transfers is complete and no debit
\* exceeded the sender's running balance when it was applied, every non-zero
\* address holds exactly what it received minus what it sent (amounts as
\* normalizeToEther gives them); the transfers
\* (mint->a, 100, block 1), (a->b, 40, block 2) end with a = 60 and b = 40.
C1_NetBalance ==
    /\ (TokenReplayed /\ NoOverdraw(tokenTransfers)) =>
          \A a \in NonZeroHolders :
              LedgerBalance(holderBalances, a, "0xTokA") = Net(tokenTransfers, a)
    /\ (pc = "done" /\ SortByBlock(transfers) = ExampleTransfers) => result = ExampleResult

C1_Witness ==
    /\ pc = "done"
    /\ transfers = Reverse(ExampleTransfers)
    /\ result = ExampleResult

\* C2: after every transfer applied, and after the LP merge, every stored
\* balance and lpBalance is >= 0, also when a debit is larger than the
\* sender's balance or the sender was never credited.
C2_NonNegative ==
    \A i \in 1..Len(holderBalances) : \A j \in 1..Len(holderBalances[i].val) :
        /\ NSign(holderBalances[i].val[j].val.balance) >= 0
        /\ NSign(holderBalances[i].val[j].val.lpBalance) >= 0

\* a debit from an address never credited has just been applied
C2_Witness ==
    /\ pc = "tokens" /\ trIdx = 1
    /\ tokenTransfers[1].from = "0xa" /\ tokenTransfers[1].to = ZERO_ADDRESS
    /\ LedgerBalance(holderBalances, "0xa", tokens[tokIdx].address) = NZero
    /\ MapHas(holderBalances, "0xa")

ZeroAbsent ==
    /\ ~MapHas(holderBalances, ZERO_ADDRESS)
    /\ \A i \in 1..Len(result) : result[i].holderAddress # ZERO_ADDRESS

\* a replay step of a mint changes no balance but the recipient's, and one
\* of a burn changes no balance but the sender's
MintBurnStep ==
    (pc = "tokens" /\ trIdx < Len(tokenTransfers) /\ trIdx' = trIdx + 1) =>
        LET t == tokenTransfers[trIdx + 1]
            ta == tokens[tokIdx].address
        IN  \A a \in NonZeroHolders \cup {ZERO_ADDRESS} :
              /\ (t.from = ZERO_ADDRESS /\ a # t.to) =>
                    LedgerBalance(holderBalances', a, ta) = LedgerBalance(holderBalances, a, ta)
              /\ (t.to = ZERO_ADDRESS /\ a # t.from) =>
                    LedgerBalance(holderBalances', a, ta) = LedgerBalance(holderBalances, a, ta)
              /\ (t.from = ZERO_ADDRESS /\ a = t.to /\ a # ZERO_ADDRESS) =>
                    LedgerBalance(holderBalances', a, ta) =
                        NAdd(LedgerBalance(holderBalances, a, ta), AmountOf(t))

\* C3: the zero address has no entry in the ledger and is no holder of the
\* result; a mint only credits the recipient, a burn only debits the sender.
C3_ZeroNeverAccrues == []ZeroAbsent /\ [][MintBurnStep]_vars

\* a mint and a burn have been replayed and the snapshot is returned
C3_Witness ==
    /\ pc = "done"
    /\ \E i \in 1..Len(transfers) : transfers[i].from = ZERO_ADDRESS /\ transfers[i].to = "0xa"
    /\ \E i \in 1..Len(transfers) : transfers[i].to = ZERO_ADDRESS /\ transfers[i].from = "0xa"
    /\ Len(result) > 0

\* what the mints of the token's transfers created, what its burns destroyed
Minted == Sent(tokenTransfers, ZERO_ADDRESS)
Burned == Received(tokenTransfers, ZERO_ADDRESS)

\* C4 as stated: the balances sum to minted - burned - clamped deficit.
C4_MinusDeficit ==
    TokenReplayed =>
        SumOfBalances(holderBalances, "0xTokA") =
            NSub(NSub(Minted, Burned), ClampedDeficit(tokenTransfers))

\* C4 amended: the balances sum to minted - burned + clamped deficit (a
\* clamped debit takes less from the sender than the transfer credits or burns).
C4_PlusDeficit ==
    TokenReplayed =>
        SumOfBalances(holderBalances, "0xTokA") =
            NAdd(NSub(Minted, Burned), ClampedDeficit(tokenTransfers))

\* a mint, then a debit larger than the sender's balance, have been replayed
C4_Witness ==
    /\ TokenReplayed /\ trIdx >= 2
    /\ NSign(Minted) > 0
    /\ NSign(ClampedDeficit(tokenTransfers)) > 0
    /\ NSign(SumOfBalances(holderBalances, "0xTokA")) > 0

\* the orders in which n transfers can be applied
AllOrders ==
    [n \in 0..MaxLedgerTransfers |->
        {p \in [1..n -> 1..n] : \A i, j \in 1..n : p[i] = p[j] => i = j}]
Orders(n) == AllOrders[n]

SharesAddress(t, u) ==
    \E a \in NonZeroHolders : (t.from = a \/ t.to = a) /\ (u.from = a \/ u.to = a)

\* the order p (p[k] = index of the k-th transfer applied) keeps, for every
\* address, the relative order of the transfers the address takes part in
KeepsAddressOrder(ts, p) ==
    \A k, l \in 1..Len(ts) :
        (k < l /\ SharesAddress(ts[p[k]], ts[p[l]])) => p[k] < p[l]

\* C5: replaying the token's transfers in any order that keeps every
\* address's own transfers in their relative order gives every address the
\* balance the replay gives it.
C5_OrderIndependent ==
    TokenReplayed =>
        \A p \in Orders(Len(tokenTransfers)) :
            KeepsAddressOrder(tokenTransfers, p) =>
                LET other == [k \in 1..Len(tokenTransfers) |-> tokenTransfers[p[k]]]
                    hb == ReplayList(EmptyMap, tokens[1], other)
                IN  \A a \in NonZeroHolders :
                        LedgerBalance(hb, a, "0xTokA") = LedgerBalance(holderBalances, a, "0xTokA")

\* three transfers, the first two of different addresses (so that they can
\* be swapped), one of them a clamped debit
C5_Witness ==
    /\ TokenReplayed /\ trIdx = 3
    /\ ~SharesAddress(tokenTransfers[1], tokenTransfers[2])
    /\ NSign(ClampedDeficit(tokenTransfers)) > 0
    /\ NSign(LedgerBalance(holderBalances, "0xa", "0xTokA")) > 0
    /\ NSign(LedgerBalance(holderBalances, "0xb", "0xTokA")) > 0

----------------------------------------------------------------------------
(* Claims about the ownership replay of getAllLPHolders.                   *)

OwnerHolds(hs, owner, tokenId) == MapHas(hs, owner) /\ tokenId \in MapGet(hs, owner)

\* the last two logs processed are a mint of a tracked position to A and,
\* in the same block, a transfer of it from A to another address B
MintThenTransfer ==
    /\ lpPc = "logs" /\ Len(lastLogs) >= 2
    /\ LET m == lastLogs[Len(lastLogs) - 1]
           t == lastLogs[Len(lastLogs)]
       IN  /\ m.tokenId \in tokenIdSet /\ t.tokenId = m.tokenId
           /\ m.from = ZERO_ADDRESS /\ t.from = m.to
           /\ t.to # ZERO_ADDRESS /\ t.to # m.to
           /\ t.blockNumber = m.blockNumber

\* C6: after a mint of a tracked position to A and a same-block transfer
\* A -> B, B holds the position and A does not; A is pruned from the map if
\* it holds no other position.
C6_MintThenTransfer ==
    MintThenTransfer =>
        LET m == lastLogs[Len(lastLogs) - 1]
            t == lastLogs[Len(lastLogs)]
        IN  /\ OwnerHolds(holders, t.to, t.tokenId)
            /\ ~OwnerHolds(holders, m.to, t.tokenId)
            /\ MapHas(holders, m.to) => MapGet(holders, m.to) # {}
            /\ (\A id \in tokenIdSet \ {t.tokenId} : chainOwner[id] # m.to) =>
                   ~MapHas(holders, m.to)

\* both cases: A pruned, and A kept because it holds another position
C6_Witness ==
    /\ MintThenTransfer
    /\ ~MapHas(holders, lastLogs[Len(lastLogs)].from)
    /\ OwnerHolds(holders, lastLogs[Len(lastLogs)].to, lastLogs[Len(lastLogs)].tokenId)

----------------------------------------------------------------------------
(* Claims about getWeightedRandomIndex and getRandomWinners.               *)

\* C7 as stated: an index returned has a weight > 0, whatever the draw; over
\* the weights [0, 0, 100] the index returned is 2.
C7_NeverZeroWeight ==
    (wPc = "returned" /\ wOut.kind = "index") =>
        /\ NSign(wWeights[wOut.index + 1]) > 0
        /\ wWeights = <<NZero, NZero, Plain(100)>> => wOut.index = 2

IsSortedByWeight(ws) ==
    \A i, j \in 1..Len(ws) : i < j => NLe(ws[j].weight, ws[i].weight)

NoDuplicateAddress(ws) ==
    \A i, j \in 1..Len(ws) : ws[i].address = ws[j].address => i = j

\* C8: with numberOfWinners >= population size the return value holds every
\* holder of the snapshot exactly once, sorted by non-increasing weight, and
\* getWeightedRandomIndex was never called.
C8_WholePopulation ==
    (selPc = "returned" /\ numberOfWinners >= Len(result)) =>
        /\ selOut.kind = "return"
        /\ Len(selOut.winners) = Len(result)
        /\ \A i \in 1..Len(result) :
              \E j \in 1..Len(selOut.winners) :
                  /\ selOut.winners[j].address = result[i].holderAddress
                  /\ selOut.winners[j].balances = <<result[i]>>
        /\ NoDuplicateAddress(selOut.winners)
        /\ IsSortedByWeight(selOut.winners)
        /\ ~drew

\* three holders returned, the snapshot's first holder not the heaviest
C8_Witness ==
    /\ selPc = "returned" /\ numberOfWinners >= Len(result) /\ Len(result) = 3
    /\ selOut.winners[1].address # result[1].holderAddress
    /\ NLt(selOut.winners[3].weight, selOut.winners[1].weight)

\* C9: with 0 <= k < n a completed run returns exactly k winners of pairwise
\* distinct addresses, sorted by non-increasing weight; during the loop a
\* selected index has weight 0 and no holder is pushed twice.
C9_DistinctWinners ==
    /\ selPc = "loop" =>
          /\ \A i \in 1..Len(holdersWithWeights) :
                holdersWithWeights[i].address \in winners => weights[i] = NZero
          /\ NoDuplicateAddress(selectedWinners)
          /\ Len(selectedWinners) = Cardinality(winners)
    /\ (selPc = "returned" /\ numberOfWinners < Len(result)) =>
          /\ selOut.kind = "return"
          /\ Len(selOut.winners) = numberOfWinners
          /\ NoDuplicateAddress(selOut.winners)
          /\ IsSortedByWeight(selOut.winners)
          /\ \A j \in 1..Len(selOut.winners) :
                \E i \in 1..Len(result) : selOut.winners[j].balances = <<result[i]>>

\* two of three holders selected, the lighter one first
C9_Witness ==
    /\ selPc = "returned" /\ numberOfWinners = 2 /\ Len(result) = 3 /\ drew
    /\ Len(selectedWinners) = 2
    /\ NLt(selectedWinners[1].weight, selectedWinners[2].weight)
    /\ selOut.winners[1] = selectedWinners[2]

\* C10: no configured pool address is a holder of the snapshot or a winner,
\* although pools are credited by the replay and by the LP merge.
C10_PoolsExcluded ==
    /\ pc = "done" =>
          \A i \in 1..Len(result) : result[i].holderAddress \notin LpAddresses(tokens)
    /\ \A i \in 1..Len(holdersWithWeights) :
          holdersWithWeights[i].address \notin LpAddresses(tokens)
    /\ selOut.kind = "return" =>
          \A i \in 1..Len(selOut.winners) :
              selOut.winners[i].address \notin LpAddresses(tokens)

\* the ledger holds a pool with a token balance and an LP-derived balance
\* just before the exclusion
PoolAccumulated ==
    /\ pc = "merged"
    /\ MapHas(holderBalances, "0xpoola")
    /\ NSign(FieldOr0(MapGet(holderBalances, "0xpoola"), "0xTokA", "balance")) > 0
    /\ NSign(FieldOr0(MapGet(holderBalances, "0xpoola"), "0xTokB", "lpBalance")) > 0

\* winners were drawn from a snapshot whose replay and LP merge credited a pool
C10_Witness ==
    /\ selPc = "returned" /\ drew /\ Len(selOut.winners) >= 1
    /\ \E i \in 1..Len(transfers) : transfers[i].to = "0xpoola"
    /\ \E i \in 1..Len(lpBalances) : lpBalances[i].holderAddress = "0xpoola"

----------------------------------------------------------------------------
(* Claims about getAllTransfers.                                           *)

\* what the transfers fetched up to the target block credit to the holder
FetchedUpToTarget ==
    NSum([i \in 1..Len(allTransfers) |-> AmountOf(allTransfers[i])],
         {i \in 1..Len(allTransfers) : allTransfers[i].blockNum <= blockNumber})

\* C11: every transfer getAllTransfers returns has a block number <= the
\* target block, whatever the pages held; the transfers replayed and the
\* balance built are those of the blocks up to the target block only.
C11_NoLaterTransfers ==
    /\ \A i \in 1..Len(transfers) : transfers[i].blockNum <= blockNumber
    /\ \A i \in 1..Len(tokenTransfers) : tokenTransfers[i].blockNum <= blockNumber
    /\ (ftPc = "returned" /\ pc \in {"merged", "done"}) =>
          LedgerBalance(holderBalances, "0xa", "0xTokA") = FetchedUpToTarget

\* a page with a transfer of a later block and one of an earlier block was
\* fetched, and the snapshot is built
C11_Witness ==
    /\ ftPc = "returned" /\ pc = "done"
    /\ \E i \in 1..Len(allTransfers) : allTransfers[i].blockNum > blockNumber
    /\ \E i \in 1..Len(allTransfers) : allTransfers[i].blockNum < blockNumber
    /\ Len(result) = 1

\* the calls are aborted: nothing is returned, no file is written
Aborted ==
    /\ pc = "threw"
    /\ result = <<>>
    /\ exported = "none"
    /\ caller = "getRandomWinners" => selPc = "threw" /\ selOut.kind = "throw"

FetchRetriesBounded ==
    /\ ftPc = "page" => retries < MAX_RETRIES
    /\ (ftPc = "threw") = (retries = MAX_RETRIES)
    /\ ftPc = "threw" => Aborted

\* the failures are counted from 0 for every page
NewPageStartsAtZero == pageKey' # pageKey => retries' = 0

\* C14: a page is attempted at most 3 times, the failures counted from 0 for
\* every page; the 3rd failure of a page makes getAllTransfers throw, which
\* aborts snapshotHolders and the method called: no snapshot or winner list
\* is returned, and no export file is written.
C14_FetchFailureAborts == []FetchRetriesBounded /\ [][NewPageStartsAtZero]_vars

\* the second page fails three times; the transfers of the first page are in
\* hand and an export was asked for
C14_Witness ==
    /\ ftPc = "threw" /\ pageKey = 2 /\ retries = MAX_RETRIES
    /\ \E i \in 1..Len(allTransfers) : allTransfers[i].blockNum <= blockNumber
    /\ csvExportFilename # ""
    /\ exported = "none" /\ result = <<>>

----------------------------------------------------------------------------
(* Claims about the weights of getRandomWinners.                           *)

RECURSIVE WeightAsRecorded(_, _)
\* the sum of balance + lpW * lpBalance over the entries of a snapshot
\* record, on the values the record holds
WeightAsRecorded(bals, lpW) ==
    IF bals = <<>> THEN NZero
    ELSE LET b == bals[Len(bals)]
         IN  NAdd(NAdd(WeightAsRecorded(SubSeq(bals, 1, Len(bals) - 1), lpW), b.balance),
                  NScale(lpW, b.lpBalance))

\* C12 as stated: the weight of a holder is the sum over its snapshot entries
\* of balance + lpWeight * lpBalance, on the values of the snapshot record.
C12_WeightFromSnapshot ==
    \A i \in 1..Len(holdersWithWeights) :
        holdersWithWeights[i].weight =
            WeightAsRecorded(holdersWithWeights[i].balances[1].balances, lpWeight)

----------------------------------------------------------------------------
(* Claims about the invalid inputs of the selector.                        *)

\* getWeightedRandomIndex throws for an empty weights array and for a total
\* weight <= 0
IndexRaises ==
    (wPc = "returned" /\ (Len(wWeights) = 0 \/ NSign(NSumSeq(wWeights)) <= 0)) =>
        wOut.kind = "throw"

\* getRandomWinners does not return when the snapshot has no holder
EmptyPopulationRaises == (selPc = "returned" /\ pc = "done") => Len(result) > 0

\* C13 as stated: an empty weights array, a total weight <= 0 and an empty
\* holder population are each raised as an error.
C13_InvalidInputRaises == IndexRaises /\ EmptyPopulationRaises

----------------------------------------------------------------------------
(* Claims about the seed discovery of getAllLPHolders.                     *)

\* the position is in the tokenIds of its owner in the result
ReturnedTo(owner, tokenId) ==
    \E i \in 1..Len(lpResult) : lpResult[i].address = owner /\ tokenId \in lpResult[i].tokenIds

\* the function is in no other position than these: it never throws
SeedNeverThrows == lpPc \in {"seed", "chunk", "logs", "return", "done"}

\* the replay starts when the for-loop has dealt with every token, and what
\* it returns after the last chunk holds every position discovered
SeededPositionsReturned ==
    /\ lpPc # "seed" => seedIdx = Len(tokens)
    /\ (lpPc = "done" /\ currentBlock > LPTargetBlock) =>
          \A id \in tokenIdSet :
              chainOwner[id] \in Owners \ {REVERT_AUTOCOMPOUNDER} =>
                  ReturnedTo(chainOwner[id], id)

\* giving up on a token takes the for-loop to the next token and keeps what
\* was discovered
GiveUpGoesOn ==
    seedFailed' # seedFailed =>
        /\ seedIdx' = seedIdx + 1
        /\ lpPc' = "seed"
        /\ tokenIdSet' = tokenIdSet /\ firstMintBlock' = firstMintBlock

\* C15: when the mint logs of a token's pool cannot be fetched in 3 attempts,
\* getAllLPHolders does not throw; the token is skipped, the seed discovery
\* goes on with the next token, and the positions discovered for the other
\* tokens are replayed and returned.
C15_FailedTokenSkipped ==
    [](SeedNeverThrows /\ SeededPositionsReturned) /\ [][GiveUpGoesOn]_vars

\* the first pool's mint logs could not be fetched, the position of the
\* second pool was discovered, replayed and returned
C15_Witness ==
    /\ lpPc = "done" /\ currentBlock > LPTargetBlock
    /\ seedFailed = {"0xPoolA"}
    /\ tokenIdSet = {2}
    /\ lpResult = <<[address |-> "0xa", tokenIds |-> {2}]>>

----------------------------------------------------------------------------
(* Claims about the ownership replay of getAllLPHolders, continued.        *)

\* C16 as stated: getAllLPHolders returns only after every chunk of the
\* range from the replay start to the target block was fetched and replayed;
\* it never returns the ownership state of a part of the range.
C16_WholeRangeOrRaise ==
    lpPc \in {"return", "done"} => currentBlock > LPTargetBlock

----------------------------------------------------------------------------
(* Claims about the result of snapshotHolders.                             *)

\* every field of the holder's ledger entry is zero
AllZero(inner) ==
    \A j \in 1..Len(inner) :
        inner[j].val.balance = NZero /\ inner[j].val.lpBalance = NZero

\* C17: every holder of the result has at least one token entry, every entry
\* listed has balance > 0 or lpBalance > 0, and a holder of the ledger whose
\* fields are all zero is not in the result.
C17_NoEmptyHolders ==
    pc = "done" =>
        /\ \A i \in 1..Len(result) :
              /\ Len(result[i].balances) >= 1
              /\ \A j \in 1..Len(result[i].balances) :
                    \/ NSign(result[i].balances[j].balance) > 0
                    \/ NSign(result[i].balances[j].lpBalance) > 0
        /\ \A i \in 1..Len(holderBalances) :
              AllZero(holderBalances[i].val) =>
                  \A k \in 1..Len(result) :
                      result[k].holderAddress # holderBalances[i].key

\* the only holder was minted an amount of a token and burned all of it: it
\* is in the ledger with a zero entry, and the result is empty
C17_Witness ==
    /\ pc = "done" /\ Len(transfers) = 2
    /\ transfers[1].from = ZERO_ADDRESS /\ transfers[1].to = "0xa"
    /\ transfers[2].from = "0xa" /\ transfers[2].to = ZERO_ADDRESS
    /\ transfers[1].token = transfers[2].token /\ transfers[1].value = transfers[2].value
    /\ MapHas(holderBalances, "0xa") /\ AllZero(MapGet(holderBalances, "0xa"))
    /\ result = <<>>

----------------------------------------------------------------------------
(* Claims about lpWeight = 0.                                              *)

\* the snapshot is built without the LP stage, no lpBalance is set, and
\* every holder of the population has a token balance
LpStageSkipped ==
    /\ ~includeLPs
    /\ lpBalances = <<>>
    /\ \A i \in 1..Len(holderBalances) : \A j \in 1..Len(holderBalances[i].val) :
          holderBalances[i].val[j].val.lpBalance = NZero
    /\ \A i \in 1..Len(holdersWithWeights) :
          \E j \in 1..Len(holdersWithWeights[i].balances[1].balances) :
              NSign(holdersWithWeights[i].balances[1].balances[j].balance) > 0

RECURSIVE SumOfTokenBalances(_)
SumOfTokenBalances(bals) ==
    IF bals = <<>> THEN NZero
    ELSE NAdd(SumOfTokenBalances(SubSeq(bals, 1, Len(bals) - 1)), bals[Len(bals)].balance)

\* every weight is the sum of the holder's token balances
WeightsAreTokenBalances ==
    \A i \in 1..Len(holdersWithWeights) :
        holdersWithWeights[i].weight =
            SumOfTokenBalances(holdersWithWeights[i].balances[1].balances)

\* C18 as stated: with lpWeight = 0 the snapshot is built without the LP
\* stage, every lpBalance is 0, no address is in the population for its
\* liquidity positions alone, and each weight is the sum of the holder's
\* token balances.
C18_ZeroLpWeight ==
    (selPc # "idle" /\ lpWeight = 0) => LpStageSkipped /\ WeightsAreTokenBalances

\* the part of C18 about the LP stage alone
C18_LpStagePart == (selPc # "idle" /\ lpWeight = 0) => LpStageSkipped

----------------------------------------------------------------------------
(* Claims about the owners of the ownership replay.                        *)

\* C19: at every point of the replay and in the output of getAllLPHolders,
\* every owner in the map holds a non-empty set of token-ids and the zero
\* address is never an owner.
C19_OwnersNonEmpty ==
    /\ \A i \in 1..Len(holders) :
          holders[i].val # {} /\ holders[i].key # ZERO_ADDRESS
    /\ \A i \in 1..Len(lpResult) :
          lpResult[i].tokenIds # {} /\ lpResult[i].address # ZERO_ADDRESS

\* the last tracked position of an owner was transferred away, or burned, and
\* the owner has been pruned
C19_Witness ==
    /\ lpPc = "logs"
    /\ Len(lastLogs) = 2
    /\ lastLogs[1].tokenId \in tokenIdSet
    /\ lastLogs[2].tokenId = lastLogs[1].tokenId
    /\ lastLogs[1].from = ZERO_ADDRESS
    /\ lastLogs[2].from = lastLogs[1].to
    /\ lastLogs[2].to \in {"0xb", ZERO_ADDRESS}
    /\ ~MapHas(holders, lastLogs[2].from)

\* C20: the auto-compounder never appears in the output of getAllLPHolders,
\* whatever positions it holds at the end of the replay, so getAllLPBalances
\* reads no position on its behalf.
C20_AutocompounderExcluded ==
    lpPc = "done" =>
        /\ \A i \in 1..Len(lpResult) : lpResult[i].address # REVERT_AUTOCOMPOUNDER
        /\ \A c \in PositionCalls(lpResult) : c.holderAddress # REVERT_AUTOCOMPOUNDER

\* the whole range was replayed, the auto-compounder owns a tracked position
\* at the end, and another owner is returned
C20_Witness ==
    /\ lpPc = "done"
    /\ currentBlock > LPTargetBlock
    /\ \E id \in tokenIdSet : chainOwner[id] = REVERT_AUTOCOMPOUNDER
    /\ PositionCalls(lpResult) # {}

----------------------------------------------------------------------------
(* Claims about the pages of getAllTransfers.                              *)

\* C22 as stated: when the provider streams most-recent-first, stopping at
\* the first page whose lowest block is beyond the target loses nothing:
\* getAllTransfers returns every provider transfer with block <= target.
C22_MostRecentFirstLosesNothing ==
    (ftPc = "returned" /\ MostRecentFirst(Flatten(pages))) =>
        transfers = FilterToBlock(Flatten(pages), blockNumber)

\* C22, amended: when the provider streams oldest-first, stopping at the
\* first page whose lowest block is beyond the target loses nothing:
\* getAllTransfers returns every provider transfer with block <= target.
C22_OldestFirstLosesNothing ==
    (ftPc = "returned" /\ OldestFirst(Flatten(pages))) =>
        transfers = FilterToBlock(Flatten(pages), blockNumber)

\* oldest-first, the fetch stopped before the provider's last page, and
\* transfers up to the target block were returned
C22_Witness ==
    /\ ftPc = "returned"
    /\ OldestFirst(Flatten(pages))
    /\ pageKey < Len(pages)
    /\ Len(pages[pageKey + 1]) > 0
    /\ Len(transfers) > 0

----------------------------------------------------------------------------
(* Claims about the order of the token replay.                             *)

BlockOrdered(ts) == \A i, j \in 1..Len(ts) : i < j => ts[i].blockNum <= ts[j].blockNum

\* two transfers of one block are in the order in which they were emitted
TiesAsEmitted(ts) ==
    \A i, j \in 1..Len(ts) :
        (i < j /\ ts[i].blockNum = ts[j].blockNum) => ts[i].logIndex < ts[j].logIndex

\* the position of a transfer in what the fetch delivered
DeliveredAt(t) == CHOOSE k \in 1..Len(transfers) : transfers[k] = t

\* two transfers of one block are in the order in which they were delivered
TiesAsDelivered(ts) ==
    \A i, j \in 1..Len(ts) :
        (i < j /\ ts[i].blockNum = ts[j].blockNum) => DeliveredAt(ts[i]) < DeliveredAt(ts[j])

\* C23 as stated: the replay of a token is in non-decreasing block order and
\* two transfers of one block are applied in emission order, whatever the
\* order of delivery.
C23_TiesAsEmittedAlways ==
    (pc = "tokens" /\ tokIdx > 0) =>
        BlockOrdered(tokenTransfers) /\ TiesAsEmitted(tokenTransfers)

\* C23, amended: the replay of a token is in non-decreasing block order and
\* two transfers of one block are applied in the order in which they were
\* delivered, which is the emission order when the delivery kept it.
C23_TiesAsDelivered ==
    (pc = "tokens" /\ tokIdx > 0) =>
        /\ BlockOrdered(tokenTransfers)
        /\ TiesAsDelivered(tokenTransfers)
        /\ TiesAsEmitted(transfers) => TiesAsEmitted(tokenTransfers)

\* three transfers over two blocks, two of them in one block, delivered
\* most-recent-first and all replayed
C23_Witness ==
    /\ pc = "tokens"
    /\ tokIdx > 0
    /\ trIdx = 3
    /\ transfers[1].logIndex = 3
    /\ transfers[1].blockNum > transfers[3].blockNum
    /\ \E i \in 1..2 : tokenTransfers[i].blockNum = tokenTransfers[i + 1].blockNum

----------------------------------------------------------------------------
(* Claims about the ownership of a position during the replay.             *)

\* the owners whose set holds the token-id
HoldersOf(hs, tokenId) == {i \in 1..Len(hs) : tokenId \in hs[i].val}

\* C24: after any prefix of the position transfers, each sent by the
\* position's current owner (the zero address for a mint), a tracked
\* token-id is in exactly one owner's set, its latest receiver's, if its
\* latest transfer went to a non-zero address, and in no set otherwise; no
\* token-id is in two sets.
C24_OneOwner ==
    lpPc \in {"chunk", "logs", "return"} =>
        \A id \in TokenIds :
            /\ Cardinality(HoldersOf(holders, id)) <= 1
            /\ IF id \in tokenIdSet /\ chainOwner[id] \in Owners
               THEN \E i \in HoldersOf(holders, id) : holders[i].key = chainOwner[id]
               ELSE HoldersOf(holders, id) = {}

\* both positions are tracked; one went from an owner to another owner, who
\* holds the other position, and was then burned
C24_Witness ==
    /\ lpPc = "logs"
    /\ tokenIdSet = TokenIds
    /\ Len(lastLogs) = 2
    /\ lastLogs[1].from # ZERO_ADDRESS
    /\ lastLogs[2].to = ZERO_ADDRESS
    /\ lastLogs[2].tokenId = lastLogs[1].tokenId
    /\ \E id \in TokenIds : chainOwner[id] = lastLogs[1].to
    /\ Len(holders) = 1

----------------------------------------------------------------------------
(* Claims about the order of the configured tokens.                        *)

\* the {balance, lpBalance} values of a snapshot, per holder and token
SnapshotValues(res) ==
    UNION {{<<res[i].holderAddress, res[i].balances[j].tokenAddress,
              res[i].balances[j].balance, res[i].balances[j].lpBalance>> :
                j \in 1..Len(res[i].balances)} : i \in 1..Len(res)}

\* a returned holder owns the position whose two sides are both configured
HoldsTwoSided == \E i \in 1..Len(lpResult) : 1 \in lpResult[i].tokenIds

\* C25 as stated: permuting the token list yields the same per-holder,
\* per-token {balance, lpBalance} values, also when a position pairs two
\* configured tokens.
C25_TokenOrderIrrelevant ==
    pc = "done" =>
        SnapshotValues(result) =
            SnapshotValues(snapshotHolders(Reverse(tokens), transfers, lpResult))

\* the same, for the snapshots in which no position pairs two configured
\* tokens
C25_SingleSidedPart ==
    (pc = "done" /\ ~HoldsTwoSided) =>
        SnapshotValues(result) =
            SnapshotValues(snapshotHolders(Reverse(tokens), transfers, lpResult))

----------------------------------------------------------------------------
(* Claims about the delays between remote calls.                           *)

\* C26 as stated: between any two consecutive remote calls of the fetch
\* stages a delay is awaited; no path issues two remote calls back to back.
C26_DelayBetweenCalls == backToBack = {}

\* the same, for two position multicall batches
C26_PositionBatchesPart ==
    <<"multicall(positions)", "multicall(positions)">> \notin backToBack

\* the same, for the receipts of two mint logs
C26_ReceiptsPart ==
    <<"getTransactionReceipt", "getTransactionReceipt">> \notin backToBack

\* the pairs of calls that are never back to back: the pages of
\* getAssetTransfers and the chunks of the ownership replay
C26_PagesAndChunksPart ==
    /\ <<"getAssetTransfers", "getAssetTransfers">> \notin backToBack
    /\ <<"getLogs(pool)", "getLogs(pool)">> \notin backToBack
    /\ <<"getLogs(positionManager)", "getLogs(positionManager)">> \notin backToBack

----------------------------------------------------------------------------
(* Claims about the scan of getWeightedRandomIndex.                        *)

\* the sum of the non-negative weights at the JavaScript indices <= i
PrefixWeight(ws, i) == NSumSeq(SubSeq(ws, 1, i + 1))

\* the prefix at index i reaches the draw d = (wDraw / DrawRes) * total
ReachesDraw(ws, i) ==
    NLe(NScale(wDraw, NSumSeq(ws)), NScale(DrawRes, PrefixWeight(ws, i)))

----------------------------------------------------------------------------
(* Claims about the selection loop never raising.                          *)

\* C28 as stated, at the first draw of the loop: with at least two holders
\* and every weight positive, the total weight is positive and the scan
\* returns an index.
C28_ScanAlwaysReturns ==
    (/\ wPc = "returned"
     /\ Len(wWeights) >= 2
     /\ \A i \in 1..Len(wWeights) : DSign(wWeights[i]) > 0) =>
        wOut.kind = "index"

\* the same in exact arithmetic: the selection loop does not throw
C28_ExactPart == selPc # "threw"

----------------------------------------------------------------------------
(* Claims about the retries of getAllTransfers.                            *)

\* what has been appended is the pages before the one being fetched, each
\* once and in order
FetchedPrefix ==
    /\ ftPc = "page" => allTransfers = Flatten(SubSeq(pages, 1, pageKey - 1))
    /\ ftPc = "returned" =>
          /\ allTransfers = Flatten(SubSeq(pages, 1, pageKey))
          /\ transfers = FilterToBlock(allTransfers, blockNumber)

\* a failed attempt appends nothing and stays on its page
FailureKeepsPage == retries' > retries => UNCHANGED <<allTransfers, pageKey>>

\* with or without failures on the way, the pages delivered oldest-first
\* yield the provider's transfers up to the target block, in provider order
SameAsWithoutFailure ==
    (ftPc = "returned" /\ OldestFirst(Flatten(pages))) =>
        transfers = FilterToBlock(Flatten(pages), blockNumber)

\* C29: retries are transparent: with pages in ascending block order and no
\* page failing 3 times in a row, getAllTransfers returns exactly the
\* provider's transfers with block <= target, each once and in provider
\* order, as a run without failure does; a retried page is never appended
\* twice and never skipped.
C29_RetriesTransparent ==
    [](FetchedPrefix /\ SameAsWithoutFailure) /\ [][FailureKeepsPage]_vars

\* the second of two pages was fetched at its third attempt, and the
\* transfers of both pages are returned
C29_Witness ==
    /\ ftPc = "returned"
    /\ pageKey = 2
    /\ retries = MAX_RETRIES - 1
    /\ OldestFirst(Flatten(pages))
    /\ Len(pages[2]) > 0
    /\ Len(transfers) = Len(Flatten(pages))

----------------------------------------------------------------------------
(* Claims about normalizeToEther.                                          *)

\* both mints are replayed
AmountsReplayed == pc = "tokens" /\ tokIdx = 1 /\ trIdx = 2

\* C30 as stated: for raw amounts a <= b, normalizeToEther(a) <=
\* normalizeToEther(b), and the larger transfer value never yields the
\* smaller ledger value.
C30_OrderPreserving ==
    (AmountsReplayed /\ NLe(transfers[1].value, transfers[2].value)) =>
        /\ NLe(normalizeToEther(transfers[1].value), normalizeToEther(transfers[2].value))
        /\ NLe(LedgerBalance(holderBalances, "0xa", "0xTokA"),
               LedgerBalance(holderBalances, "0xb", "0xTokA"))

\* the same for two amounts on the same side of the threshold
C30_SameSidePart ==
    (/\ AmountsReplayed
     /\ NLe(transfers[1].value, transfers[2].value)
     /\ NLt(Wei(1), transfers[1].value) = NLt(Wei(1), transfers[2].value)) =>
        NLe(LedgerBalance(holderBalances, "0xa", "0xTokA"),
            LedgerBalance(holderBalances, "0xb", "0xTokA"))

----------------------------------------------------------------------------
(* Claims about the block ranges of the ownership replay.  The range       *)
(* requested last is [currentBlock, endBlock] while its logs are           *)
(* processed; endBlock keeps the end of that range until the next request. *)

\* the least element of a non-empty set of block numbers
Minimum(S) == CHOOSE m \in S : \A x \in S : m <= x

\* the step that requests a range: getLogs(fromBlock, toBlock) resolves
ChunkRequested == lpPc = "chunk" /\ lpPc' = "logs"

\* the replay start is the target block until a mint log is returned, and a
\* pool's mint logs lower it to the least mint block seen
StartIsLowestMint ==
    (lpPc = "seed" /\ seedIdx' = seedIdx + 1 /\ seedFailed' = seedFailed) =>
        \E mintLogs \in MintLogsOf(tokens[seedIdx + 1].lpAddress) :
            firstMintBlock' =
                Minimum({firstMintBlock} \cup
                        {mintLogs[i].blockNumber : i \in 1..Len(mintLogs)})

StartIsTargetWithoutMint == (lpPc = "seed" /\ seedIdx = 0) => firstMintBlock = LPTargetBlock

\* the first range starts at the replay start, every other range at the block
\* after the end of the range before it; a range is not empty and ends at or
\* before the target block
RangesContiguous ==
    ChunkRequested =>
        /\ currentBlock' = currentBlock
        /\ currentBlock = (IF endBlock = 0 THEN firstMintBlock ELSE endBlock + 1)
        /\ currentBlock <= endBlock'
        /\ endBlock' <= LPTargetBlock
        /\ endBlock' > endBlock

\* the range being processed lies within the replay start and the target
RangeWithinReplay ==
    lpPc = "logs" =>
        firstMintBlock <= currentBlock /\ currentBlock <= endBlock /\ endBlock <= LPTargetBlock

\* the loop that ends without a failed fetch has requested the target block
\* last, and goes no further
CoveredThroughTarget ==
    (lpPc \in {"return", "done"} /\ currentBlock > LPTargetBlock) =>
        endBlock = LPTargetBlock /\ currentBlock = LPTargetBlock + 1

\* the loop is left before the target block only by a fetch that fails
EndsEarlyOnlyOnFailure ==
    (lpPc = "chunk" /\ lpPc' = "return" /\ ~FetchChunkFails) => currentBlock > LPTargetBlock

\* the function returns
ReplayTerminates == <>(lpPc = "done")

\* C31: the block ranges requested by the ownership replay are contiguous and
\* non-overlapping and cover every block from the replay start (the minimum
\* discovered mint block, or the target block when no mint was found) through
\* the target block exactly once; the chunk loop ends after finitely many
\* requests.
C31_RangesCoverReplay ==
    /\ [](StartIsTargetWithoutMint /\ RangeWithinReplay /\ CoveredThroughTarget)
    /\ [][StartIsLowestMint /\ RangesContiguous /\ EndsEarlyOnlyOnFailure]_vars
    /\ ReplayTerminates

\* a mint was found at block 1, no fetch failed, and the replay has requested
\* its ranges up to the target block and returned
C31_Witness ==
    /\ lpPc = "done"
    /\ firstMintBlock = 1
    /\ seedFailed = {}
    /\ endBlock = LPTargetBlock
    /\ currentBlock = LPTargetBlock + 1

====
